---- MODULE Spec2Model ----
(***************************************************************************)
(* Verification model of the ad-platform ingestion pipeline                *)
(* (routes/integration.py: google_ads_fetch_data, meta_ads_fetch_data) and *)
(* of the Stripe webhook state machine (routes/billing.py: stripe_webhook).*)
(*                                                                         *)
(* The database is modelled as its committed contents plus the contents    *)
(* seen by the request's SQLAlchemy session (committed rows plus flushed,  *)
(* not yet committed changes).  Flask-SQLAlchemy's default session has     *)
(* autoflush on, so every query of a handler sees the handler's own        *)
(* pending rows, and it removes the session when the request ends, which   *)
(* discards whatever was not committed.                                    *)
(***************************************************************************)
EXTENDS Integers, Sequences, FiniteSets, TLC

(***************************************************************************)
(* Bounds of the model.                                                    *)
(***************************************************************************)
MaxFetches == 2
MaxBatches == 2
MaxBatchRows == 2

(***************************************************************************)
(* Enumerations (models/ad_platform_integration.py).                       *)
(***************************************************************************)
GOOGLE_ADS == "GoogleAds"
META_ADS == "MetaAds"

\* The user who is logged in (current_user.id).
CurrentUserId == 1

\* The integration rows the table may hold: of the logged-in user or of
\* another, ACTIVE or not, with an ad account selected or still pending, the
\* access token readable or not (the Google Ads fetch does not read it).
AdPlatformIntegration ==
    {i \in [id : {1}, platform_name : {GOOGLE_ADS, META_ADS}, user_id : {1, 2},
            status : {"active", "revoked"},
            ad_account_id : {"1234567890", "pending_selection"},
            access_token : {"token", ""}] :
        i.platform_name = GOOGLE_ADS => i.access_token = "token"}

\* A lookup that would not ask whose integration it is.
first_of_any_user(tbl, integration_id, user_id, platform_name) ==
    {i \in tbl : /\ i.id = integration_id
                 /\ i.platform_name = platform_name
                 /\ i.status = "active"}

\* AdPlatformIntegration.query.filter_by(id, user_id, platform_name,
\* status=ACTIVE): the rows first_or_404 chooses from.
first_or_404(tbl, integration_id, user_id, platform_name) ==
    {i \in tbl : /\ i.id = integration_id
                 /\ i.user_id = user_id
                 /\ i.platform_name = platform_name
                 /\ i.status = "active"}

(***************************************************************************)
(* Input domains: what the vendor APIs may answer.                         *)
(***************************************************************************)
CampaignIds == {"c1"}
CampaignNames == {"Spring", "Summer"}
Dates == {1}

\* Google Ads DeviceEnum.Device members
DeviceEnum == {"UNSPECIFIED", "UNKNOWN", "MOBILE", "TABLET", "DESKTOP", "CONNECTED_TV", "OTHER"}
GoogleDevices == {"MOBILE", "OTHER", "UNKNOWN"}
GoogleCountries == {"countries/US"}
GoogleAges == {"AGE_RANGE_18_24"}
GoogleGenders == {"FEMALE"}
\* metrics of a Google Ads row: cost in micros, conversions as a float given in tenths
GoogleMetrics ==
    {[impressions |-> 10, clicks |-> 2, cost_micros |-> 1500000, conversions_tenths |-> 10],
     [impressions |-> 20, clicks |-> 3, cost_micros |-> 2000000, conversions_tenths |-> 25]}

\* The rows of one response: a campaign has one name throughout a response.
GoogleAdsRow(name) ==
    [campaign_id : CampaignIds, campaign_name : {name}, date : Dates,
     device : GoogleDevices, geo_target_country : GoogleCountries,
     age_range_type : GoogleAges, gender_type : GoogleGenders, metrics : GoogleMetrics]

(***************************************************************************)
(* The fact table: CampaignData rows (models/campaign_data.py).  Spend is  *)
(* held in cents (Numeric(10, 2)).                                         *)
(***************************************************************************)
NewCampaignData(i, plat, c, n, d, bt, bv, imp, cl, sp, cv) ==
    [integration_id |-> i, platform |-> plat, campaign_id_platform |-> c,
     campaign_name_platform |-> n, date |-> d, breakdown_type |-> bt,
     breakdown_value |-> bv, impressions |-> imp, clicks |-> cl, spend |-> sp,
     conversions |-> cv]

\* A wider key, with the campaign name among the key columns.
uq_with_campaign_name(r) ==
    <<r.integration_id, r.campaign_id_platform, r.date, r.breakdown_type, r.breakdown_value,
      r.campaign_name_platform>>

\* The columns of the unique constraint uq_campaign_daily_breakdown_metric.
uq_campaign_daily_breakdown_metric(r) ==
    <<r.integration_id, r.campaign_id_platform, r.date, r.breakdown_type, r.breakdown_value>>

\* The database accepts a table only if no two rows agree on the unique key.
IntegrityOK(tbl) ==
    \A r1, r2 \in tbl :
        uq_campaign_daily_breakdown_metric(r1) = uq_campaign_daily_breakdown_metric(r2) => r1 = r2

\* CampaignData.query.filter_by(integration_id, campaign_id_platform, date,
\*                              breakdown_type, breakdown_value, platform)
FilterByKey(tbl, new) ==
    {r \in tbl : /\ uq_campaign_daily_breakdown_metric(r) = uq_campaign_daily_breakdown_metric(new)
                 /\ r.platform = new.platform}

\* An accumulating upsert: the metrics of the call are added to the stored ones.
UpsertAdding(tbl, new) ==
    IF FilterByKey(tbl, new) # {}
    THEN LET existing == CHOOSE r \in FilterByKey(tbl, new) : TRUE
         IN  (tbl \ {existing}) \cup
             {[existing EXCEPT !.campaign_name_platform = new.campaign_name_platform,
                               !.impressions = @ + new.impressions,
                               !.clicks = @ + new.clicks,
                               !.spend = @ + new.spend,
                               !.conversions = @ + new.conversions]}
    ELSE tbl \cup {new}

\* The query-then-branch upsert: update the existing row (name and the four
\* metrics) or add the new one to the session.
Upsert(tbl, new) ==
    IF FilterByKey(tbl, new) # {}
    THEN LET existing == CHOOSE r \in FilterByKey(tbl, new) : TRUE
         IN  (tbl \ {existing}) \cup
             {[existing EXCEPT !.campaign_name_platform = new.campaign_name_platform,
                               !.impressions = new.impressions,
                               !.clicks = new.clicks,
                               !.spend = new.spend,
                               !.conversions = new.conversions]}
    ELSE tbl \cup {new}

(***************************************************************************)
(* Breakdown normalisation of the Google Ads fetcher.                      *)
(***************************************************************************)
GoogleDeviceValue(device_enum_val) ==
    CASE device_enum_val = "MOBILE" -> "mobile"
      [] device_enum_val = "DESKTOP" -> "desktop"
      [] device_enum_val = "TABLET" -> "tablet"
      [] device_enum_val = "CONNECTED_TV" -> "connected_tv"
      [] OTHER -> "unknown"

\* Resource names are "<collection>/<code>"; the code after the last "/" is
\* kept when the collection is "countries".
GeoResources == [x \in {"countries/US", "countries/IT", "geoTargetConstants/2840", ""} |->
                    CASE x = "countries/US" -> <<"countries", "US">>
                      [] x = "countries/IT" -> <<"countries", "IT">>
                      [] x = "geoTargetConstants/2840" -> <<"geoTargetConstants", "2840">>
                      [] OTHER -> <<>>]

GoogleCountryValue(country_resource_name) ==
    LET parts == GeoResources[country_resource_name]
    IN  IF parts # <<>> /\ parts[1] = "countries" THEN parts[Len(parts)] ELSE "unknown"

GoogleAgeValue(age_range_enum) ==
    CASE age_range_enum = "AGE_RANGE_18_24" -> "18-24"
      [] age_range_enum = "AGE_RANGE_25_34" -> "25-34"
      [] age_range_enum = "AGE_RANGE_65_UP" -> "65+"
      [] OTHER -> "unknown"

GoogleGenderValue(gender_enum) ==
    CASE gender_enum = "FEMALE" -> "female"
      [] gender_enum = "MALE" -> "male"
      [] gender_enum = "UNDETERMINED" -> "undetermined"
      [] OTHER -> "unknown"

\* cost_micros / 1000000.0 stored in a Numeric(10, 2) column, in cents
GoogleSpend(cost_micros) == cost_micros \div 10000
\* int(row.metrics.conversions)
GoogleConversions(conversions_tenths) == conversions_tenths \div 10

(***************************************************************************)
(* Meta Ads Insights items.  The API sends numbers as strings: an integer  *)
(* as its digits, the spend as units and cents.  A missing field is NoField.*)
(***************************************************************************)
NoField == <<>>
MetaDeviceValues == {"mobile_app", "mobile_web", "desktop"}
MetaSmall == [impressions |-> <<1, 0>>, clicks |-> <<2>>, spend |-> <<1, 50>>, actions |-> NoField]
MetaLarge == [impressions |-> <<2, 0>>, clicks |-> <<3>>, spend |-> <<2, 0>>,
              actions |-> <<[action_type |-> "link_click", value |-> <<4>>],
                            [action_type |-> "omni_purchase", value |-> <<2>>],
                            [action_type |-> "purchase", value |-> <<1>>]>>]
\* The metrics an item may carry, per breakdown_configs entry.
MetaMetrics(db_type) == IF db_type = "device" THEN {MetaSmall, MetaLarge} ELSE {MetaLarge}
\* The values of the breakdown field, per breakdown_configs entry.
MetaBreakdownValues(db_type) ==
    CASE db_type = "device" -> MetaDeviceValues
      [] db_type = "country" -> {"US"}
      [] db_type = "age_range" -> {"18-24"}
      [] db_type = "gender" -> {"female"}

\* The names Meta may send for a campaign; "" stands for an item without the field.
MetaCampaignNames == {"Spring", ""}

\* The items of one response: a campaign has one name throughout a fetch.
MetaItems(db_type, name) ==
    [campaign_id : CampaignIds, campaign_name : {name}, date_start : Dates,
     value : MetaBreakdownValues(db_type), metrics : MetaMetrics(db_type)]

\* breakdown_configs, in loop order: the db_type of each entry
breakdown_configs == <<"device", "country", "age_range", "gender">>

\* The strings that contain a given substring, among the strings of the model.
Containing(sub) ==
    CASE sub = "mobile" -> {"mobile_app", "mobile_web"}
      [] sub = "desktop" -> {"desktop"}
      [] sub = "tablet" -> {}
      [] sub = "purchase" -> {"purchase", "omni_purchase"}

\* int("...") of a string of decimal digits
RECURSIVE ParseInt(_)
ParseInt(digits) ==
    IF digits = <<>> THEN 0
    ELSE 10 * ParseInt(SubSeq(digits, 1, Len(digits) - 1)) + digits[Len(digits)]

\* int(item.get(field, 0))
MetaInt(field) == IF field = NoField THEN 0 ELSE ParseInt(field)

\* float(item.get('spend', 0.0)) in a Numeric(10, 2) column, in cents
MetaSpend(spend) == IF spend = NoField THEN 0 ELSE 100 * spend[1] + spend[2]

\* Device platform names are folded; every other breakdown value is stored as sent.
MetaBreakdownValue(breakdown_type_str, breakdown_value) ==
    IF breakdown_type_str = "device"
    THEN CASE breakdown_value \in Containing("mobile") -> "mobile"
           [] breakdown_value \in Containing("desktop") -> "desktop"
           [] breakdown_value \in Containing("tablet") -> "tablet"
           [] OTHER -> breakdown_value
    ELSE breakdown_value

\* The sum of the values of the purchase actions.
RECURSIVE MetaConversions(_)
MetaConversions(actions) ==
    IF actions = NoField THEN 0
    ELSE (IF Head(actions).action_type \in Containing("purchase")
          THEN MetaInt(Head(actions).value) ELSE 0)
         + MetaConversions(Tail(actions))

\* item.get('campaign_name', f'Campaign {campaign_id}')
MetaCampaignName(item) ==
    IF item.campaign_name = "" THEN [c \in CampaignIds |-> "Campaign c1"][item.campaign_id]
    ELSE item.campaign_name

(***************************************************************************)
(* State.                                                                  *)
(***************************************************************************)
VARIABLES
    integrations,             \* rows of ad_platform_integrations of the user
    campaign_data,            \* committed rows of the campaign_data table
    session,                  \* the table as the request's db.session sees it
    pc,                       \* position of the request being served
    integration,              \* the integration row the fetch route loaded
    processed_campaign_dates, \* set of <<campaign id, date, campaign name>>
    row_count,                \* loop variable of the Google row loop: <<>> while unbound
    batch_count,              \* batches taken from the response stream so far
    batch_rows,               \* rows (items) of the current batch (response) processed so far
    config_index,             \* position in breakdown_configs (Meta Ads)
    api_data_dates,           \* <<campaign id, date, name>> of the items of api_data_list
    fetches,                  \* fetch requests served so far
    vendor_campaign_name,     \* the name the vendor sends for the campaign during this fetch
    \* history variables, written but never read by the handlers
    run_ok,                   \* no error of any kind in this invocation so far
    vendor_error,             \* the vendor API reported an error in this invocation
    api_calls,                \* vendor API calls made by this invocation
    batch_base,               \* the session's table when the current batch began
    last_commit,              \* what the step just taken did: "none", commit "ok" or "failed"
    vendor_total              \* per <<campaign, date>>: metric sums over the vendor rows

ingest_vars == <<integrations, campaign_data, fetches, vendor_campaign_name, session, pc, integration,
                 processed_campaign_dates, row_count, batch_count, batch_rows,
                 config_index, api_data_dates, run_ok, vendor_error, api_calls,
                 batch_base, last_commit, vendor_total>>

\* The billing tables and the answer of the webhook endpoint.
VARIABLES
    users,                    \* users table: id -> stripe_customer_id ("" is NULL)
    user_subscriptions,       \* committed rows of the user_subscriptions table
    response                  \* status code of the last webhook response, 0 before the first

billing_vars == <<users, user_subscriptions, response>>

\* One call of a function of the program that keeps no state of its own.
VARIABLES
    call,                     \* the function called and its arguments
    result                    \* what the call returned

fn_vars == <<call, result>>

\* The ad_platform_integrations table with the columns the OAuth routes write.
VARIABLES
    ad_platform_integrations  \* committed rows

oauth_vars == <<ad_platform_integrations>>

\* Requests that are served at the same time, each with a session of its own.
VARIABLES
    requests                  \* request number -> its position, inputs and session

race_vars == <<requests>>

\* What neither the fetch routes nor the webhook endpoint touch.
aux_vars == <<fn_vars, oauth_vars, race_vars>>

vars == <<ingest_vars, billing_vars, aux_vars>>

NoCall == [fn |-> "none"]

NoIntegration == [id |-> 0, platform_name |-> "none"]
MetricFields == {"impressions", "clicks", "spend", "conversions"}
ZeroTotal == [k \in CampaignIds \X Dates |-> [f \in MetricFields \cup {"rows"} |-> 0]]

\* vendor_total after one more vendor row with the given (normalised) metrics
AddTotal(tot, c, d, e) ==
    [tot EXCEPT ![<<c, d>>] =
        [f \in MetricFields \cup {"rows"} |-> IF f = "rows" THEN @[f] + 1 ELSE @[f] + e[f]]]

(***************************************************************************)
(* Google Ads fetcher: row processing (steps 9 and 10).                    *)
(***************************************************************************)
\* The four facts one API row is turned into; all four carry the row's metrics.
GoogleRowEntries(i, row) ==
    LET New(bt, bv) ==
            NewCampaignData(i.id, GOOGLE_ADS, row.campaign_id, row.campaign_name, row.date,
                            bt, bv, row.metrics.impressions, row.metrics.clicks,
                            GoogleSpend(row.metrics.cost_micros),
                            GoogleConversions(row.metrics.conversions_tenths))
    IN  << New("device", GoogleDeviceValue(row.device)),
           New("country", GoogleCountryValue(row.geo_target_country)),
           New("age_range", GoogleAgeValue(row.age_range_type)),
           New("gender", GoogleGenderValue(row.gender_type)) >>

GoogleProcessRow(sess, i, row) ==
    LET e == GoogleRowEntries(i, row)
    IN  Upsert(Upsert(Upsert(Upsert(sess, e[1]), e[2]), e[3]), e[4])

(***************************************************************************)
(* Meta Ads fetcher: _process_and_store_meta_breakdown, one item.          *)
(***************************************************************************)
MetaItemEntry(i, breakdown_type_str, item) ==
    NewCampaignData(i.id, META_ADS, item.campaign_id, MetaCampaignName(item), item.date_start,
                    breakdown_type_str, MetaBreakdownValue(breakdown_type_str, item.value),
                    MetaInt(item.metrics.impressions), MetaInt(item.metrics.clicks),
                    MetaSpend(item.metrics.spend), MetaConversions(item.metrics.actions))

MetaProcessItem(sess, i, breakdown_type_str, item) ==
    Upsert(sess, MetaItemEntry(i, breakdown_type_str, item))

(***************************************************************************)
(* Overall rollup (step 12 of the Google Ads fetcher, step 7 of the Meta   *)
(* Ads fetcher: the same code).                                            *)
(***************************************************************************)
RECURSIVE SumOf(_, _)
SumOf(rows, field) ==
    IF rows = {} THEN 0
    ELSE LET r == CHOOSE x \in rows : TRUE
         IN  r[field] + SumOf(rows \ {r}, field)

DeviceRows(tbl, i, plat, camp_id, date_obj) ==
    {r \in tbl : /\ r.integration_id = i
                 /\ r.campaign_id_platform = camp_id
                 /\ r.date = date_obj
                 /\ r.breakdown_type = "device"
                 /\ r.platform = plat}

\* An iteration that would store the sums also when no device fact is found.
RecomputeOverallUnguarded(sess, i, plat, cd) ==
    LET devs == DeviceRows(sess, i, plat, cd[1], cd[2])
    IN  Upsert(sess, NewCampaignData(i, plat, cd[1], cd[3], cd[2], "overall", "N/A",
                                     SumOf(devs, "impressions"), SumOf(devs, "clicks"),
                                     SumOf(devs, "spend"), SumOf(devs, "conversions")))

\* One iteration of the loop over the processed campaign-dates.
RecomputeOverall(sess, i, plat, cd) ==
    LET devs == DeviceRows(sess, i, plat, cd[1], cd[2])
    IN  IF devs = {} THEN sess   \* func.sum gave NULL: skip
        ELSE Upsert(sess, NewCampaignData(i, plat, cd[1], cd[3], cd[2], "overall", "N/A",
                                          SumOf(devs, "impressions"), SumOf(devs, "clicks"),
                                          SumOf(devs, "spend"), SumOf(devs, "conversions")))

RECURSIVE RecomputeOveralls(_, _, _, _)
RecomputeOveralls(sess, i, plat, order) ==
    IF order = <<>> THEN sess
    ELSE RecomputeOveralls(RecomputeOverall(sess, i, plat, Head(order)), i, plat, Tail(order))

\* The orders in which a Python set may be iterated.
IterationOrders(S) ==
    {o \in [1..Cardinality(S) -> S] : \A x \in S : \E k \in DOMAIN o : o[k] = x}

\* db.session.commit(): the pending changes become the committed table, unless
\* the database refuses them or fails (db_ok false): then the caller rolls back.
CommitSucceeds(sess, db_ok) == db_ok /\ IntegrityOK(sess)

(***************************************************************************)
(* Dashboard KPI endpoint, a read of the committed table.                  *)
(***************************************************************************)
\* PlatformNameEnum[platform_filter.upper()]: the member of that name; the
\* empty set stands for KeyError.
PlatformNameEnum(platform_filter) ==
    IF platform_filter \in {"GOOGLE_ADS", "google_ads"} THEN {GOOGLE_ADS}
    ELSE IF platform_filter \in {"META_ADS", "meta_ads"} THEN {META_ADS}
    ELSE {}

\* The aggregate query of get_kpis: the facts joined to the user's ACTIVE
\* integrations, dated within the period, of the platform if one is asked.
KpiRows(tbl, integs, user_id, first, last, platforms) ==
    {r \in tbl : /\ \E i \in integs : /\ i.id = r.integration_id
                                     /\ i.user_id = user_id
                                     /\ i.status = "active"
                 /\ r.date >= first
                 /\ r.date <= last
                 /\ r.platform \in platforms}

\* GET /dashboard/api/kpis: the totals of the period and of the period before.
get_kpis(tbl, integs, user_id, platform_filter, start_date, end_date) ==
    IF platform_filter # "all" /\ PlatformNameEnum(platform_filter) = {}
    THEN [status |-> 400]
    ELSE LET platforms == IF platform_filter = "all" THEN {GOOGLE_ADS, META_ADS}
                          ELSE PlatformNameEnum(platform_filter)
             results == KpiRows(tbl, integs, user_id, start_date, end_date, platforms)
             current_duration_days == (end_date - start_date) + 1
             prev_end_date == start_date - 1
             prev_start_date == prev_end_date - (current_duration_days - 1)
             prev_results == KpiRows(tbl, integs, user_id, prev_start_date,
                                     prev_end_date, platforms)
         IN  [status |-> 200,
              total_spend |-> SumOf(results, "spend"),
              total_conversions |-> SumOf(results, "conversions"),
              prev_total_spend |-> SumOf(prev_results, "spend"),
              prev_total_conversions |-> SumOf(prev_results, "conversions")]

(***************************************************************************)
(* Google Ads fetch route, one action per step of the request.             *)
(***************************************************************************)
\* Steps 1-8: the integration is loaded and the search stream is opened.
GoogleFetchStart ==
    /\ pc = "idle"
    /\ fetches < MaxFetches
    /\ fetches' = fetches + 1
    /\ \E integration_id \in {1, 2} :
        \E i \in first_or_404(integrations, integration_id, CurrentUserId, GOOGLE_ADS) :
          /\ i.ad_account_id # "pending_selection"
          /\ integration' = i
    /\ vendor_campaign_name' \in CampaignNames
    /\ pc' = "google_stream"
    /\ session' = campaign_data
    /\ processed_campaign_dates' = {}
    /\ row_count' = <<>>
    /\ batch_count' = 0
    /\ batch_rows' = 0
    /\ run_ok' = TRUE
    /\ vendor_error' = FALSE
    /\ api_calls' = 1
    /\ batch_base' = campaign_data
    /\ vendor_total' = ZeroTotal
    /\ last_commit' = "none"
    /\ UNCHANGED <<integrations, campaign_data, config_index, api_data_dates>>
    /\ UNCHANGED <<billing_vars, aux_vars>>

\* Steps 1-3 end the request: no such integration of the user (404), no
\* customer id selected yet, or no developer token configured.
GoogleFetchRefused ==
    /\ pc = "idle"
    /\ fetches < MaxFetches
    /\ fetches' = fetches + 1
    /\ \E integration_id \in {1, 2}, developer_token \in {"", "dev-token"} :
        LET found == first_or_404(integrations, integration_id, CurrentUserId, GOOGLE_ADS)
        IN  /\ \/ found = {}
               \/ \E i \in found : i.ad_account_id = "pending_selection"
               \/ developer_token = ""
            /\ integration' = IF found = {} THEN NoIntegration ELSE CHOOSE i \in found : TRUE
    /\ pc' = "returned"
    /\ session' = campaign_data
    /\ batch_base' = campaign_data
    /\ run_ok' = FALSE
    /\ UNCHANGED <<integrations, campaign_data, vendor_campaign_name,
                   processed_campaign_dates, row_count, batch_count, batch_rows,
                   config_index, api_data_dates, vendor_error, api_calls, last_commit,
                   vendor_total>>
    /\ UNCHANGED <<billing_vars, aux_vars>>

\* Steps 9-10 for one row of the current batch: four upserts.
GoogleRow ==
    /\ pc = "google_stream"
    /\ batch_count < MaxBatches
    /\ batch_rows < MaxBatchRows
    /\ \E row \in GoogleAdsRow(vendor_campaign_name) :
          /\ session' = GoogleProcessRow(session, integration, row)
          /\ processed_campaign_dates' =
                processed_campaign_dates \cup {<<row.campaign_id, row.date, row.campaign_name>>}
          /\ vendor_total' = AddTotal(vendor_total, row.campaign_id, row.date,
                                      GoogleRowEntries(integration, row)[1])
    /\ row_count' = <<batch_rows>>
    /\ batch_rows' = batch_rows + 1
    /\ last_commit' = "none"
    /\ UNCHANGED <<fetches, vendor_campaign_name, integrations, campaign_data, pc,
                   integration, batch_count, config_index, api_data_dates, run_ok,
                   vendor_error, api_calls, batch_base>>
    /\ UNCHANGED <<billing_vars, aux_vars>>

\* Step 11, at the end of a batch: commit if row_count > 0.  row_count is the
\* index of the last row of the batch, or what an earlier batch left in it when
\* this batch is empty; it is unbound when no row was ever seen, and reading
\* it then raises UnboundLocalError, which "except Exception" answers with a
\* rollback and the redirect.
GoogleBatchEnd ==
    /\ pc = "google_stream"
    /\ batch_count < MaxBatches
    /\ batch_count' = batch_count + 1
    /\ batch_rows' = 0
    /\ IF row_count = <<>>
       THEN /\ pc' = "returned"
            /\ session' = campaign_data
            /\ run_ok' = FALSE
            /\ last_commit' = "none"
            /\ UNCHANGED campaign_data
       ELSE /\ pc' = "google_stream"
            /\ IF row_count[1] > 0
               THEN \E db_ok \in BOOLEAN :
                      IF CommitSucceeds(session, db_ok)
                      THEN /\ campaign_data' = session
                           /\ session' = session
                           /\ run_ok' = run_ok
                           /\ last_commit' = "ok"
                      ELSE /\ campaign_data' = campaign_data
                           /\ session' = campaign_data
                           /\ run_ok' = FALSE
                           /\ last_commit' = "failed"
               ELSE /\ campaign_data' = campaign_data
                    /\ session' = session
                    /\ run_ok' = run_ok
                    /\ last_commit' = "none"
    /\ batch_base' = session'
    /\ UNCHANGED <<fetches, vendor_campaign_name, integrations, integration,
                   processed_campaign_dates, row_count, config_index, api_data_dates,
                   vendor_error, api_calls, vendor_total>>
    /\ UNCHANGED <<billing_vars, aux_vars>>

\* A handler for GoogleAdsException that would commit what is pending.
GoogleApiErrorCommitting ==
    /\ pc = "google_stream"
    /\ batch_rows = 0
    /\ pc' = "returned"
    /\ campaign_data' = session
    /\ session' = session
    /\ run_ok' = FALSE
    /\ vendor_error' = TRUE
    /\ last_commit' = "none"
    /\ UNCHANGED <<fetches, vendor_campaign_name, integrations, integration,
                   processed_campaign_dates, row_count, batch_count, batch_rows, config_index,
                   api_data_dates, api_calls, batch_base, vendor_total>>
    /\ UNCHANGED <<billing_vars, aux_vars>>

\* Step 13: the stream raises GoogleAdsException.  The handler flashes, logs
\* and redirects; what is pending goes when the request's session is removed.
GoogleApiError ==
    /\ pc = "google_stream"
    /\ batch_rows = 0
    /\ pc' = "returned"
    /\ session' = campaign_data
    /\ run_ok' = FALSE
    /\ vendor_error' = TRUE
    /\ last_commit' = "none"
    /\ UNCHANGED <<fetches, vendor_campaign_name, integrations, campaign_data, integration,
                   processed_campaign_dates, row_count, batch_count, batch_rows,
                   config_index, api_data_dates, api_calls, batch_base, vendor_total>>
    /\ UNCHANGED <<billing_vars, aux_vars>>

\* Step 12: the stream is exhausted; the overall totals are recomputed for
\* every processed campaign-date and committed.
GoogleOverall ==
    /\ pc = "google_stream"
    /\ batch_rows = 0
    /\ \E order \in IterationOrders(processed_campaign_dates), db_ok \in BOOLEAN :
          LET sess == RecomputeOveralls(session, integration.id, GOOGLE_ADS, order)
          IN  IF CommitSucceeds(sess, db_ok)
              THEN /\ campaign_data' = sess
                   /\ session' = sess
                   /\ run_ok' = run_ok
                   /\ last_commit' = "ok"
              ELSE /\ campaign_data' = campaign_data
                   /\ session' = campaign_data
                   /\ run_ok' = FALSE
                   /\ last_commit' = "failed"
    /\ pc' = "returned"
    /\ UNCHANGED <<fetches, vendor_campaign_name, integrations, integration,
                   processed_campaign_dates, row_count, batch_count, batch_rows,
                   config_index, api_data_dates, vendor_error, api_calls, batch_base,
                   vendor_total>>
    /\ UNCHANGED <<billing_vars, aux_vars>>

(***************************************************************************)
(* Meta Ads fetch route.                                                   *)
(***************************************************************************)
\* Steps 1-5.
MetaFetchStart ==
    /\ pc = "idle"
    /\ fetches < MaxFetches
    /\ fetches' = fetches + 1
    /\ \E integration_id \in {1, 2} :
        \E i \in first_or_404(integrations, integration_id, CurrentUserId, META_ADS) :
          /\ i.ad_account_id # "pending_selection"
          /\ i.access_token # ""
          /\ integration' = i
    /\ vendor_campaign_name' \in MetaCampaignNames
    /\ pc' = "meta_request"
    /\ session' = campaign_data
    /\ processed_campaign_dates' = {}
    /\ config_index' = 1
    /\ api_data_dates' = {}
    /\ batch_rows' = 0
    /\ run_ok' = TRUE
    /\ vendor_error' = FALSE
    /\ api_calls' = 0
    /\ batch_base' = campaign_data
    /\ vendor_total' = ZeroTotal
    /\ last_commit' = "none"
    /\ UNCHANGED <<integrations, campaign_data, row_count, batch_count>>
    /\ UNCHANGED <<billing_vars, aux_vars>>

\* Steps 1-3 end the request: no such integration of the user (404), no ad
\* account selected yet, or no access token to read.
MetaFetchRefused ==
    /\ pc = "idle"
    /\ fetches < MaxFetches
    /\ fetches' = fetches + 1
    /\ \E integration_id \in {1, 2} :
        LET found == first_or_404(integrations, integration_id, CurrentUserId, META_ADS)
        IN  /\ \/ found = {}
               \/ \E i \in found : i.ad_account_id = "pending_selection"
               \/ \E i \in found : i.access_token = ""
            /\ integration' = IF found = {} THEN NoIntegration ELSE CHOOSE i \in found : TRUE
    /\ pc' = "returned"
    /\ session' = campaign_data
    /\ batch_base' = campaign_data
    /\ run_ok' = FALSE
    /\ UNCHANGED <<integrations, campaign_data, vendor_campaign_name,
                   processed_campaign_dates, row_count, batch_count, batch_rows,
                   config_index, api_data_dates, vendor_error, api_calls, last_commit,
                   vendor_total>>
    /\ UNCHANGED <<billing_vars, aux_vars>>

\* Step 6: requests.get for the current breakdown answers with a data list.
MetaRequestOk ==
    /\ pc = "meta_request"
    /\ config_index <= Len(breakdown_configs)
    /\ pc' = "meta_items"
    /\ api_calls' = api_calls + 1
    /\ last_commit' = "none"
    /\ UNCHANGED <<fetches, vendor_campaign_name, integrations, campaign_data, session,
                   integration, processed_campaign_dates, row_count, batch_count,
                   batch_rows, config_index, api_data_dates, run_ok, vendor_error,
                   batch_base, vendor_total>>
    /\ UNCHANGED <<billing_vars, aux_vars>>

\* Step 6: requests.get raises RequestException.  The handler flashes, logs
\* and goes on with the next entry of breakdown_configs.
MetaRequestError ==
    /\ pc = "meta_request"
    /\ config_index <= Len(breakdown_configs)
    /\ api_calls' = api_calls + 1
    /\ config_index' = config_index + 1
    /\ run_ok' = FALSE
    /\ vendor_error' = TRUE
    /\ last_commit' = "none"
    /\ UNCHANGED <<fetches, vendor_campaign_name, integrations, campaign_data, session, pc,
                   integration, processed_campaign_dates, row_count, batch_count,
                   batch_rows, api_data_dates, batch_base, vendor_total>>
    /\ UNCHANGED <<billing_vars, aux_vars>>

\* The response carries "data": null: the helper returns False, nothing is committed.
MetaNoData ==
    /\ pc = "meta_items"
    /\ batch_rows = 0
    /\ pc' = "meta_request"
    /\ config_index' = config_index + 1
    /\ last_commit' = "none"
    /\ UNCHANGED <<fetches, vendor_campaign_name, integrations, campaign_data, session,
                   integration, processed_campaign_dates, row_count, batch_count,
                   batch_rows, api_data_dates, run_ok, vendor_error, api_calls, batch_base,
                   vendor_total>>
    /\ UNCHANGED <<billing_vars, aux_vars>>

\* One item of api_data_list goes through the helper's loop.  (The items'
\* campaign-dates are kept for the device breakdown, the only one that reads them.)
MetaItem ==
    /\ pc = "meta_items"
    /\ batch_rows < MaxBatchRows
    /\ LET db_type == breakdown_configs[config_index]
       IN  \E item \in MetaItems(db_type, vendor_campaign_name) :
              /\ session' = MetaProcessItem(session, integration, db_type, item)
              /\ IF db_type = "device"
                 THEN /\ api_data_dates' = api_data_dates \cup
                            {<<item.campaign_id, item.date_start, MetaCampaignName(item)>>}
                      /\ vendor_total' = AddTotal(vendor_total, item.campaign_id, item.date_start,
                                                  MetaItemEntry(integration, db_type, item))
                 ELSE UNCHANGED <<api_data_dates, vendor_total>>
    /\ batch_rows' = batch_rows + 1
    /\ last_commit' = "none"
    /\ UNCHANGED <<fetches, vendor_campaign_name, integrations, campaign_data, pc,
                   integration, processed_campaign_dates, row_count, batch_count,
                   config_index, run_ok, vendor_error, api_calls, batch_base>>
    /\ UNCHANGED <<billing_vars, aux_vars>>

\* The helper returned True: the breakdown is committed, and after a
\* committed device breakdown its campaign-dates are remembered.
MetaCommit ==
    /\ pc = "meta_items"
    /\ \E db_ok \in BOOLEAN :
          IF CommitSucceeds(session, db_ok)
          THEN /\ campaign_data' = session
               /\ session' = session
               /\ run_ok' = run_ok
               /\ last_commit' = "ok"
               /\ processed_campaign_dates' = processed_campaign_dates \cup api_data_dates
          ELSE /\ campaign_data' = campaign_data
               /\ session' = campaign_data
               /\ run_ok' = FALSE
               /\ last_commit' = "failed"
               /\ processed_campaign_dates' = processed_campaign_dates
    /\ pc' = "meta_request"
    /\ config_index' = config_index + 1
    /\ batch_rows' = 0
    /\ api_data_dates' = {}
    /\ batch_base' = session'
    /\ UNCHANGED <<fetches, vendor_campaign_name, integrations, integration, row_count,
                   batch_count, vendor_error, api_calls, vendor_total>>
    /\ UNCHANGED <<billing_vars, aux_vars>>

\* Step 7: after the last breakdown the overall totals are recomputed for the
\* campaign-dates of the device breakdown, if there are any.
MetaOverall ==
    /\ pc = "meta_request"
    /\ config_index > Len(breakdown_configs)
    /\ IF processed_campaign_dates # {}
       THEN \E order \in IterationOrders(processed_campaign_dates), db_ok \in BOOLEAN :
              LET sess == RecomputeOveralls(session, integration.id, META_ADS, order)
              IN  IF CommitSucceeds(sess, db_ok)
                  THEN /\ campaign_data' = sess
                       /\ session' = sess
                       /\ run_ok' = run_ok
                       /\ last_commit' = "ok"
                  ELSE /\ campaign_data' = campaign_data
                       /\ session' = campaign_data
                       /\ run_ok' = FALSE
                       /\ last_commit' = "failed"
       ELSE /\ last_commit' = "none"
            /\ UNCHANGED <<campaign_data, session, run_ok>>
    /\ pc' = "returned"
    /\ UNCHANGED <<fetches, vendor_campaign_name, integrations, integration,
                   processed_campaign_dates, row_count, batch_count, batch_rows,
                   config_index, api_data_dates, vendor_error, api_calls, batch_base,
                   vendor_total>>
    /\ UNCHANGED <<billing_vars, aux_vars>>

\* The redirect is sent and the request's session is removed.
Return ==
    /\ pc = "returned"
    /\ pc' = "idle"
    /\ vendor_campaign_name' = ""
    /\ session' = campaign_data
    /\ integration' = NoIntegration
    /\ processed_campaign_dates' = {}
    /\ row_count' = <<>>
    /\ batch_count' = 0
    /\ batch_rows' = 0
    /\ config_index' = 0
    /\ api_data_dates' = {}
    /\ run_ok' = TRUE
    /\ vendor_error' = FALSE
    /\ api_calls' = 0
    /\ batch_base' = campaign_data
    /\ vendor_total' = ZeroTotal
    /\ last_commit' = "none"
    /\ UNCHANGED <<fetches, integrations, campaign_data>>
    /\ UNCHANGED <<billing_vars, aux_vars>>

(***************************************************************************)
(* Billing: models/user.py, models/user_subscription.py,                   *)
(* models/subscription_plan.py and stripe_webhook of routes/billing.py.    *)
(*                                                                         *)
(* The only statement of the repository that creates a user_subscriptions  *)
(* row is the one in the checkout handler, so the rows the other handlers  *)
(* work on are taken from the database as it is found: the initial state   *)
(* holds rows that satisfy the schema's constraints.  Timestamps are small *)
(* integers, 0 standing for None.  The created_at and updated_at columns   *)
(* are left out.                                                           *)
(***************************************************************************)
UserIds == {1, 2}
SubscriptionIds == {"sub_1", "sub_2", "sub_3"}

SubscriptionStatusEnum ==
    {"active", "cancelled", "past_due", "trialing", "incomplete", "incomplete_expired", "unpaid"}

NoStatus == "None"

\* SubscriptionStatusEnum.from_stripe_status: Stripe spells "canceled"; a status
\* that is not in the mapping gives None.  (The payloads of the model are lower case.)
from_stripe_status(stripe_status_str) ==
    CASE stripe_status_str = "active" -> "active"
      [] stripe_status_str = "trialing" -> "trialing"
      [] stripe_status_str = "past_due" -> "past_due"
      [] stripe_status_str = "canceled" -> "cancelled"
      [] stripe_status_str = "unpaid" -> "unpaid"
      [] stripe_status_str = "incomplete" -> "incomplete"
      [] stripe_status_str = "incomplete_expired" -> "incomplete_expired"
      [] OTHER -> NoStatus

\* The subscription_plans table.
SubscriptionPlan == {[id |-> 1, stripe_price_id |-> "price_1"],
                     [id |-> 2, stripe_price_id |-> "price_2"]}

\* SubscriptionPlan.query.filter_by(stripe_price_id=...)
PlanByPrice(stripe_price_id) == {pl \in SubscriptionPlan : pl.stripe_price_id = stripe_price_id}

\* user_subscription.plan.stripe_price_id
PriceOfPlan(plan_id) == (CHOOSE pl \in SubscriptionPlan : pl.id = plan_id).stripe_price_id

\* The attributes of the UserSubscription class: its columns and relationships.
UserSubscriptionAttributes ==
    {"id", "user_id", "plan_id", "start_date", "end_date", "status", "stripe_subscription_id",
     "created_at", "updated_at", "plan", "user"}

\* UserSubscription(**kwargs): the declarative constructor raises TypeError for
\* a keyword that is not an attribute of the class.
UserSubscription(kwargs) ==
    IF DOMAIN kwargs \subseteq UserSubscriptionAttributes
    THEN [raised |-> FALSE,
          row |-> [stripe_subscription_id |-> kwargs.stripe_subscription_id,
                   user_id |-> kwargs.user_id, plan_id |-> kwargs.plan_id,
                   status |-> kwargs.status, end_date |-> kwargs.end_date]]
    ELSE [raised |-> TRUE]

\* unique=True on users.stripe_customer_id (NULLs do not collide)
UsersOK(u) ==
    \A a, b \in DOMAIN u : (u[a] # "" /\ u[a] = u[b]) => a = b

\* unique=True on user_subscriptions.stripe_subscription_id
SubscriptionsOK(subs) ==
    \A r1, r2 \in subs : r1.stripe_subscription_id = r2.stripe_subscription_id => r1 = r2

\* UserSubscription.query.filter_by(stripe_subscription_id=...)
FilterBySubscriptionId(subs, stripe_subscription_id) ==
    {r \in subs : r.stripe_subscription_id = stripe_subscription_id}

\* What a handler leaves behind: the committed tables, the tables as its
\* session holds them when it returns, and the status code.
Answer(db, sess, code) ==
    [users |-> db.users, user_subscriptions |-> db.user_subscriptions,
     session |-> sess, response |-> code]

\* A session that would be committed when the request ends.
commit_on_teardown(a) == a.session

\* db = SQLAlchemy(): the session is removed when the request ends, and what
\* was not committed is gone.
shutdown_session(a) == [users |-> a.users, user_subscriptions |-> a.user_subscriptions]

\* try: db.session.commit() / except: db.session.rollback(), with the status
\* codes of the two outcomes
CommitOr(db, sess, db_ok, ok_code, failed_code) ==
    IF db_ok /\ UsersOK(sess.users) /\ SubscriptionsOK(sess.user_subscriptions)
    THEN Answer(sess, sess, ok_code)
    ELSE Answer(db, db, failed_code)

(***************************************************************************)
(* The handlers of stripe_webhook.  db holds the committed tables, event   *)
(* the event's payload, env what Stripe's API and the database answer      *)
(* while the event is handled.                                             *)
(***************************************************************************)
\* The older subscriptions of the user that the checkout handler cancels.
CancelOlder(subs, user_id, stripe_subscription_id) ==
    {IF /\ r.user_id = user_id
        /\ r.stripe_subscription_id # stripe_subscription_id
        /\ r.status \in {"active", "trialing", "past_due"}
     THEN [r EXCEPT !.status = "cancelled"]
     ELSE r : r \in subs}

\* event.type == 'checkout.session.completed'
checkout_session_completed(db, event, env) ==
    LET user_id == event.client_reference_id
        stripe_subscription_id == event.subscription
        stripe_customer_id == event.customer
    IN
    IF user_id = 0 \/ stripe_subscription_id = "" \/ stripe_customer_id = ""
    THEN Answer(db, db, 400)
    ELSE IF user_id \notin DOMAIN db.users
    THEN Answer(db, db, 404)
    ELSE
    LET with_customer == [db EXCEPT !.users[user_id] = stripe_customer_id]
        existing_sub_check ==
            FilterBySubscriptionId(db.user_subscriptions, stripe_subscription_id)
        with_cancelled ==
            [with_customer EXCEPT !.user_subscriptions =
                CancelOlder(db.user_subscriptions, user_id, stripe_subscription_id)]
        trialing == env.trial_end # 0 /\ env.trial_end > env.utcnow
        new_subscription ==
            UserSubscription([user_id |-> user_id,
                              plan_id |-> (CHOOSE pl \in PlanByPrice(env.line_items) : TRUE).id,
                              stripe_subscription_id |-> stripe_subscription_id,
                              status |-> IF trialing THEN "trialing" ELSE "active",
                              start_date |-> env.start_date,
                              end_date |-> IF trialing THEN env.trial_end
                                           ELSE env.current_period_end,
                              stripe_customer_id |-> stripe_customer_id])
    IN
    \* the idempotency query flushes the user row first: IntegrityError, not caught
    IF ~UsersOK(with_customer.users)
    THEN Answer(db, with_customer, 500)
    ELSE IF existing_sub_check # {}
    THEN IF with_customer.users # db.users
         THEN CommitOr(db, with_customer, env.db_ok, 200, 200)
         ELSE Answer(db, db, 200)
    ELSE IF env.line_items \in {"error", ""}
    THEN Answer(db, with_customer, 400)
    ELSE IF PlanByPrice(env.line_items) = {}
    THEN Answer(db, with_customer, 404)
    ELSE IF env.retrieve = "error"
    THEN Answer(db, with_cancelled, 500)
    ELSE IF new_subscription.raised
    THEN Answer(db, with_cancelled, 500)
    ELSE CommitOr(db,
                  [with_cancelled EXCEPT !.user_subscriptions = @ \cup {new_subscription.row}],
                  env.db_ok, 200, 500)

\* An end date that would be moved on by one period at every payment.
ExtendedPeriodEnd(end_date, current_period_end) == end_date + current_period_end

\* The end date an invoice payment gives a subscription.
\* An answer that would make Stripe deliver the event again.
subscription_not_found_retry(db) == Answer(db, db, 404)

\* No row has the event's subscription id (or the invoice names none): the
\* handler logs and acknowledges.
subscription_not_found(db) == Answer(db, db, 200)

\* A handler that would leave the stored end date alone.
KeptPeriodEnd(end_date, current_period_end) == end_date

NewPeriodEnd(end_date, current_period_end) == current_period_end

\* event.type == 'invoice.payment_succeeded'
invoice_payment_succeeded(db, event, env) ==
    LET found == FilterBySubscriptionId(db.user_subscriptions, event.subscription)
        user_subscription == CHOOSE r \in found : TRUE
        status1 == IF user_subscription.status = "trialing"
                      /\ event.billing_reason = "subscription_cycle"
                   THEN "active" ELSE user_subscription.status
        status2 == IF status1 = "past_due" THEN "active" ELSE status1
        new_period_end == NewPeriodEnd(user_subscription.end_date, env.current_period_end)
        updated == [user_subscription EXCEPT !.status = status2, !.end_date = new_period_end]
        updated_fields == (status2 # user_subscription.status)
                          \/ (user_subscription.end_date # env.current_period_end)
    IN
    IF event.subscription = "" \/ found = {}
    THEN subscription_not_found(db)
    ELSE IF env.retrieve = "error"
    THEN Answer(db, db, 500)
    ELSE IF updated_fields
    THEN CommitOr(db, [db EXCEPT !.user_subscriptions = (@ \ {user_subscription}) \cup {updated}],
                  env.db_ok, 200, 500)
    ELSE Answer(db, db, 200)

\* The end of the current period taken as the end instant.
period_end_ts(event) == event.current_period_end

\* 'ended_at' of a deleted subscription, 'cancel_at' of one set to cancel at the
\* end of the period; 0 when the payload has no such field.
effective_end_date_ts(event) ==
    IF event.type = "customer.subscription.deleted" THEN event.ended_at ELSE event.cancel_at

\* event.type == 'customer.subscription.deleted', or 'customer.subscription.updated'
\* with cancel_at_period_end True
subscription_cancelled(db, event, env) ==
    LET found == FilterBySubscriptionId(db.user_subscriptions, event.subscription)
        user_subscription == CHOOSE r \in found : TRUE
        updated == [user_subscription EXCEPT
                       !.status = "cancelled",
                       !.end_date = IF effective_end_date_ts(event) # 0
                                    THEN effective_end_date_ts(event) ELSE @]
    IN
    IF found = {}
    THEN subscription_not_found(db)
    ELSE IF user_subscription.status = "cancelled"
    THEN Answer(db, db, 200)
    ELSE CommitOr(db, [db EXCEPT !.user_subscriptions = (@ \ {user_subscription}) \cup {updated}],
                  env.db_ok, 200, 500)

\* event.type == 'invoice.payment_failed'
invoice_payment_failed(db, event, env) ==
    LET found == FilterBySubscriptionId(db.user_subscriptions, event.subscription)
        user_subscription == CHOOSE r \in found : TRUE
        updated == [user_subscription EXCEPT !.status = "past_due"]
    IN
    IF event.subscription = "" \/ found = {}
    THEN subscription_not_found(db)
    ELSE IF user_subscription.status = "past_due"
    THEN Answer(db, db, 200)
    ELSE CommitOr(db, [db EXCEPT !.user_subscriptions = (@ \ {user_subscription}) \cup {updated}],
                  env.db_ok, 200, 500)

\* A status update that would take whatever status Stripe sends.
StatusAfterUpdateUnguarded(status, new_local_status) ==
    IF new_local_status # NoStatus THEN new_local_status ELSE status

\* The status a general update leaves: the one Stripe sends, except that a
\* cancelled subscription stays cancelled.
StatusAfterUpdate(status, new_local_status) ==
    IF new_local_status # NoStatus /\ status # new_local_status
    THEN IF status = "cancelled" /\ new_local_status # "cancelled"
         THEN status
         ELSE new_local_status
    ELSE status

\* event.type == 'customer.subscription.updated' without cancel_at_period_end
subscription_updated(db, event, env) ==
    LET found == FilterBySubscriptionId(db.user_subscriptions, event.subscription)
        user_subscription == CHOOSE r \in found : TRUE
        new_period_end == event.current_period_end
        end_changed == user_subscription.end_date # new_period_end
        new_plan == PlanByPrice(event.price)
        plan_changed == /\ event.price # ""
                        /\ PriceOfPlan(user_subscription.plan_id) # event.price
                        /\ new_plan # {}
        plan_id == IF plan_changed THEN (CHOOSE pl \in new_plan : TRUE).id
                   ELSE user_subscription.plan_id
        status1 == StatusAfterUpdate(user_subscription.status, from_stripe_status(event.status))
        status_changed == status1 # user_subscription.status
        trial_moved == status1 = "trialing" /\ event.trial_end # 0
                       /\ new_period_end # event.trial_end
        trial_ended == status1 = "trialing" /\ event.trial_end = 0
        updated == [user_subscription EXCEPT
                       !.plan_id = plan_id,
                       !.status = IF trial_ended THEN "active" ELSE status1,
                       !.end_date = IF trial_moved THEN event.trial_end ELSE new_period_end]
        changed_fields == end_changed \/ plan_changed \/ status_changed \/ trial_moved
                          \/ trial_ended
    IN
    IF found = {}
    THEN subscription_not_found(db)
    ELSE IF changed_fields
    THEN CommitOr(db, [db EXCEPT !.user_subscriptions = (@ \ {user_subscription}) \cup {updated}],
                  env.db_ok, 200, 500)
    ELSE Answer(db, db, 200)

\* The dispatch on event.type.
stripe_webhook(db, event, env) ==
    CASE event.type = "checkout.session.completed" -> checkout_session_completed(db, event, env)
      [] event.type = "invoice.payment_succeeded" -> invoice_payment_succeeded(db, event, env)
      [] \/ event.type = "customer.subscription.deleted"
         \/ (event.type = "customer.subscription.updated" /\ event.cancel_at_period_end) ->
            subscription_cancelled(db, event, env)
      [] event.type = "invoice.payment_failed" -> invoice_payment_failed(db, event, env)
      [] event.type = "customer.subscription.updated" /\ ~event.cancel_at_period_end ->
            subscription_updated(db, event, env)
      [] OTHER -> Answer(db, db, 200)

(***************************************************************************)
(* The events Stripe may deliver and what the environment may answer.      *)
(***************************************************************************)
\* The fields the handlers read from an event; a field a payload lacks holds
\* 0, "" or FALSE.
BaseEvent ==
    [type |-> "", client_reference_id |-> 0, subscription |-> "", customer |-> "",
     billing_reason |-> "", status |-> "", trial_end |-> 0, current_period_end |-> 0,
     price |-> "", cancel_at_period_end |-> FALSE, ended_at |-> 0, cancel_at |-> 0]

\* Stripe's answers (Session.retrieve with line items, Subscription.retrieve),
\* the clock and the database's answer to a commit.
BaseEnv ==
    [line_items |-> "price_1", retrieve |-> "ok", start_date |-> 1, current_period_end |-> 2,
     trial_end |-> 0, utcnow |-> 1, db_ok |-> TRUE]

CheckoutEvents ==
    {[BaseEvent EXCEPT !.type = "checkout.session.completed", !.client_reference_id = u,
                       !.subscription = sub, !.customer = "cus_1"] :
        u \in UserIds \cup {3}, sub \in SubscriptionIds}
    \cup {[BaseEvent EXCEPT !.type = "checkout.session.completed", !.client_reference_id = 1,
                            !.subscription = "sub_3"]}

CheckoutEnvs ==
    {BaseEnv,
     [BaseEnv EXCEPT !.trial_end = 2],
     [BaseEnv EXCEPT !.line_items = "error"],
     [BaseEnv EXCEPT !.line_items = ""],
     [BaseEnv EXCEPT !.line_items = "price_x"],
     [BaseEnv EXCEPT !.retrieve = "error"],
     [BaseEnv EXCEPT !.db_ok = FALSE]}

InvoiceEvents(type) ==
    {[BaseEvent EXCEPT !.type = type, !.subscription = sub, !.billing_reason = reason] :
        sub \in SubscriptionIds \cup {""},
        reason \in {"subscription_cycle", "subscription_create"}}

InvoiceEnvs ==
    {[BaseEnv EXCEPT !.current_period_end = t, !.db_ok = ok] : t \in {1, 2}, ok \in BOOLEAN}
    \cup {[BaseEnv EXCEPT !.retrieve = "error"]}

CommitEnvs == {[BaseEnv EXCEPT !.db_ok = ok] : ok \in BOOLEAN}

CancellationEvents ==
    {[BaseEvent EXCEPT !.type = "customer.subscription.deleted", !.subscription = sub,
                       !.status = "canceled", !.ended_at = t] :
        sub \in SubscriptionIds, t \in {0, 2}}
    \cup {[BaseEvent EXCEPT !.type = "customer.subscription.updated", !.subscription = sub,
                            !.status = "active", !.cancel_at_period_end = TRUE,
                            !.cancel_at = t, !.current_period_end = 2] :
            sub \in SubscriptionIds, t \in {0, 2}}

StripeStatuses ==
    {"active", "trialing", "past_due", "canceled", "unpaid", "incomplete",
     "incomplete_expired", "paused"}

\* General updates: every status at either period end; a trial end with the
\* statuses that go with one; a price change on an active subscription.
UpdatePayloads ==
    {[BaseEvent EXCEPT !.status = st, !.current_period_end = t, !.price = "price_1"] :
        st \in StripeStatuses, t \in {1, 2}}
    \cup {[BaseEvent EXCEPT !.status = st, !.current_period_end = t, !.price = "price_1",
                            !.trial_end = 2] :
            st \in {"trialing", "active"}, t \in {1, 2}}
    \cup {[BaseEvent EXCEPT !.status = "active", !.current_period_end = 2, !.price = pr] :
            pr \in {"", "price_2", "price_x"}}

SubscriptionUpdatedEvents ==
    {[payload EXCEPT !.type = "customer.subscription.updated", !.subscription = sub] :
        payload \in UpdatePayloads, sub \in SubscriptionIds}

UnhandledEvents == {[BaseEvent EXCEPT !.type = "customer.created"]}

\* Every delivery of the model: an event with what the environment answers.
Deliveries ==
    (CheckoutEvents \X CheckoutEnvs)
    \cup (InvoiceEvents("invoice.payment_succeeded") \X InvoiceEnvs)
    \cup (CancellationEvents \X CommitEnvs)
    \cup (InvoiceEvents("invoice.payment_failed") \X CommitEnvs)
    \cup (SubscriptionUpdatedEvents \X CommitEnvs)
    \cup (UnhandledEvents \X {BaseEnv})

\* The committed tables.
Db == [users |-> users, user_subscriptions |-> user_subscriptions]

\* One request: the handler runs, the answer is sent, the session is removed.
Deliver(db, event, env) == shutdown_session(stripe_webhook(db, event, env))

\* The tables and the answer after one request.
Handled(event, env) ==
    LET a == stripe_webhook(Db, event, env)
    IN  [users |-> shutdown_session(a).users,
         user_subscriptions |-> shutdown_session(a).user_subscriptions,
         response |-> a.response]

(***************************************************************************)
(* The webhook endpoint, one action per branch of stripe_webhook.          *)
(***************************************************************************)
\* construct_event raises: invalid payload or signature
WebhookRejected ==
    /\ response' = 400
    /\ UNCHANGED <<users, user_subscriptions, ingest_vars, aux_vars>>

CheckoutSessionCompleted ==
    \E event \in CheckoutEvents, env \in CheckoutEnvs :
        /\ users' = Handled(event, env).users
        /\ user_subscriptions' = Handled(event, env).user_subscriptions
        /\ response' = Handled(event, env).response
        /\ UNCHANGED <<ingest_vars, aux_vars>>

InvoicePaymentSucceeded ==
    \E event \in InvoiceEvents("invoice.payment_succeeded"), env \in InvoiceEnvs :
        /\ users' = Handled(event, env).users
        /\ user_subscriptions' = Handled(event, env).user_subscriptions
        /\ response' = Handled(event, env).response
        /\ UNCHANGED <<ingest_vars, aux_vars>>

SubscriptionCancelled ==
    \E event \in CancellationEvents, env \in CommitEnvs :
        /\ users' = Handled(event, env).users
        /\ user_subscriptions' = Handled(event, env).user_subscriptions
        /\ response' = Handled(event, env).response
        /\ UNCHANGED <<ingest_vars, aux_vars>>

InvoicePaymentFailed ==
    \E event \in InvoiceEvents("invoice.payment_failed"), env \in CommitEnvs :
        /\ users' = Handled(event, env).users
        /\ user_subscriptions' = Handled(event, env).user_subscriptions
        /\ response' = Handled(event, env).response
        /\ UNCHANGED <<ingest_vars, aux_vars>>

SubscriptionUpdated ==
    \E event \in SubscriptionUpdatedEvents, env \in CommitEnvs :
        /\ users' = Handled(event, env).users
        /\ user_subscriptions' = Handled(event, env).user_subscriptions
        /\ response' = Handled(event, env).response
        /\ UNCHANGED <<ingest_vars, aux_vars>>

UnhandledEvent ==
    \E event \in UnhandledEvents :
        /\ users' = Handled(event, BaseEnv).users
        /\ user_subscriptions' = Handled(event, BaseEnv).user_subscriptions
        /\ response' = Handled(event, BaseEnv).response
        /\ UNCHANGED <<ingest_vars, aux_vars>>

(***************************************************************************)
(* Initial states and specifications.                                      *)
(***************************************************************************)
\* The statuses the specification calls non-cancelled and non-terminal.
LiveStatuses == {"trialing", "active", "past_due", "incomplete", "unpaid"}

LiveSubscriptions(subs, u) == {r \in subs : r.user_id = u /\ r.status \in LiveStatuses}

\* The subscription rows found in the database: two subscriptions of user 1,
\* at most one of them live.
SeedTables ==
    {t \in {{[stripe_subscription_id |-> "sub_1", user_id |-> 1, plan_id |-> 1,
              status |-> s1, end_date |-> 1],
             [stripe_subscription_id |-> "sub_2", user_id |-> 1, plan_id |-> 1,
              status |-> s2, end_date |-> 1]} :
                s1 \in SubscriptionStatusEnum, s2 \in SubscriptionStatusEnum} :
        \A u \in UserIds : Cardinality(LiveSubscriptions(t, u)) <= 1}

BillingIdle ==
    /\ users = [u \in UserIds |-> ""]
    /\ user_subscriptions = {}
    /\ response = 0

\* No function call is being observed.
FunctionsIdle ==
    /\ call = NoCall
    /\ result = NoCall

\* Nobody has connected an ad platform.
OAuthIdle == ad_platform_integrations = {}

\* No request is being served next to another.
RaceIdle == requests = <<>>

AuxIdle == FunctionsIdle /\ OAuthIdle /\ RaceIdle

\* The user owns one integration, of either platform; no fact is stored yet.
Init ==
    /\ integrations \in {{i} : i \in AdPlatformIntegration}
    /\ campaign_data = {}
    /\ fetches = 0
    /\ vendor_campaign_name = ""
    /\ session = {}
    /\ pc = "idle"
    /\ integration = NoIntegration
    /\ processed_campaign_dates = {}
    /\ row_count = <<>>
    /\ batch_count = 0
    /\ batch_rows = 0
    /\ config_index = 0
    /\ api_data_dates = {}
    /\ run_ok = TRUE
    /\ vendor_error = FALSE
    /\ api_calls = 0
    /\ batch_base = {}
    /\ last_commit = "none"
    /\ vendor_total = ZeroTotal
    /\ BillingIdle
    /\ AuxIdle

Next ==
    \/ GoogleFetchStart
    \/ GoogleFetchRefused
    \/ MetaFetchRefused
    \/ GoogleRow
    \/ GoogleBatchEnd
    \/ GoogleApiError
    \/ GoogleOverall
    \/ MetaFetchStart
    \/ MetaRequestOk
    \/ MetaRequestError
    \/ MetaNoData
    \/ MetaItem
    \/ MetaCommit
    \/ MetaOverall
    \/ Return

Spec == Init /\ [][Next]_vars

\* The webhook endpoint on its own: no fetch runs, the fact table stays empty.
InitBilling ==
    /\ integrations = {}
    /\ campaign_data = {}
    /\ fetches = 0
    /\ vendor_campaign_name = ""
    /\ session = {}
    /\ pc = "idle"
    /\ integration = NoIntegration
    /\ processed_campaign_dates = {}
    /\ row_count = <<>>
    /\ batch_count = 0
    /\ batch_rows = 0
    /\ config_index = 0
    /\ api_data_dates = {}
    /\ run_ok = TRUE
    /\ vendor_error = FALSE
    /\ api_calls = 0
    /\ batch_base = {}
    /\ last_commit = "none"
    /\ vendor_total = ZeroTotal
    /\ users = [u \in UserIds |-> ""]
    /\ user_subscriptions \in SeedTables
    /\ response = 0
    /\ AuxIdle

NextBilling ==
    \/ WebhookRejected
    \/ CheckoutSessionCompleted
    \/ InvoicePaymentSucceeded
    \/ SubscriptionCancelled
    \/ InvoicePaymentFailed
    \/ SubscriptionUpdated
    \/ UnhandledEvent

SpecBilling == InitBilling /\ [][NextBilling]_vars

(***************************************************************************)
(* Properties of the ingestion pipeline.                                   *)
(***************************************************************************)
OverallRows(tbl) == {r \in tbl : r.breakdown_type = "overall" /\ r.breakdown_value = "N/A"}

\* The stored overall fact r equals the sums over the stored device facts of
\* its (integration, campaign, date).
RollupHolds(tbl, r) ==
    LET devs == DeviceRows(tbl, r.integration_id, r.platform, r.campaign_id_platform, r.date)
    IN  \A f \in MetricFields : r[f] = SumOf(devs, f)

\* C1: after every fetch invocation has returned, whether it succeeded, was
\* cut short by a vendor API error or had a commit fail, every stored
\* overall/N/A fact equals, field by field, the sum over the stored
\* device-breakdown facts of its (integration, campaign, date).
C1_RollupAfterEveryRun ==
    pc = "returned" => \A r \in OverallRows(campaign_data) : RollupHolds(campaign_data, r)

\* C2: in every committed state no two campaign facts share the same
\* (integration, platform campaign id, date, breakdown type, breakdown value).
C2_UniqueKey ==
    \A r1, r2 \in campaign_data :
        ( /\ r1.integration_id = r2.integration_id
          /\ r1.campaign_id_platform = r2.campaign_id_platform
          /\ r1.date = r2.date
          /\ r1.breakdown_type = r2.breakdown_type
          /\ r1.breakdown_value = r2.breakdown_value ) => r1 = r2

\* A second fetch has returned without error; it brought more vendor rows than
\* there are device values, so rows shared a normalised value, and the
\* campaign is stored under two names.
C2_Witness ==
    /\ pc = "returned"
    /\ fetches = 2
    /\ run_ok
    /\ \E k \in CampaignIds \X Dates : vendor_total[k].rows >= 3
    /\ \E r1, r2 \in campaign_data :
          /\ r1.campaign_id_platform = r2.campaign_id_platform
          /\ r1.campaign_name_platform # r2.campaign_name_platform

\* C3: after a fetch that completes without error, the overall/N/A fact of
\* each (campaign, date) touched holds the sum over all vendor rows returned
\* for that campaign and date, each vendor row counted exactly once.
C3_TrueTotal ==
    (pc = "returned" /\ run_ok) =>
        \A k \in CampaignIds \X Dates :
            vendor_total[k].rows > 0 =>
                \E r \in OverallRows(campaign_data) :
                    /\ r.campaign_id_platform = k[1]
                    /\ r.date = k[2]
                    /\ \A f \in MetricFields : r[f] = vendor_total[k][f]

\* The step in which the vendor API reports the first error of an invocation.
VendorErrorStep == ~vendor_error /\ vendor_error'

OtherTypes(tbl, bt) == {r \in tbl : r.breakdown_type # bt}

C10_OnlyFailedBatchDiscarded ==
    [][(last_commit' = "failed" /\ pc' # "returned") =>
          /\ session' = batch_base
          /\ campaign_data' = campaign_data
          /\ pc' \in {"google_stream", "meta_request"}]_vars


\* C24: in a Google Ads fetch the facts derived from every batch of the
\* response stream that contains at least one row are committed before any
\* row of the next batch is processed, whatever the size of the batch and
\* also when the stream contains an empty batch (a commit that the database
\* refuses aside); so a failure while the next batch is fetched or processed
\* loses no fact of the batches before it.
C24_BatchCommittedBeforeNext ==
    /\ [][(/\ pc = "google_stream"
           /\ batch_count' = batch_count + 1
           /\ batch_rows >= 1
           /\ last_commit' # "failed") => campaign_data' = session]_vars
    /\ [][(/\ pc = "google_stream"
           /\ pc' = "returned"
           /\ vendor_error') => campaign_data' = batch_base]_vars

\* An integration for which C28 lets the logged-in user fetch.
Fetchable(i) ==
    /\ i.user_id = CurrentUserId
    /\ i.status = "active"
    /\ i.ad_account_id # "pending_selection"
    /\ i.platform_name = META_ADS => i.access_token # ""

\* C28: a fetch request creates or modifies campaign facts only for an
\* integration that belongs to the requesting user, is of the requested
\* platform, is active and has an ad account other than "pending_selection"
\* (and, for Meta Ads, a stored access token); in every other case the
\* request ends without calling the vendor and leaves every campaign fact
\* unchanged; and every fact it writes carries that integration's id and
\* platform.
C28_FetchOnlyOwnActiveIntegration ==
        /\ [](\A r \in campaign_data \cup session :
                \E i \in integrations :
                    /\ i.id = r.integration_id
                    /\ i.platform_name = r.platform
                    /\ Fetchable(i))
        /\ [][(pc = "idle" /\ pc' # "idle" /\ ~\E i \in integrations : Fetchable(i))
                => /\ pc' = "returned"
                   /\ api_calls' = 0
                   /\ campaign_data' = campaign_data
                   /\ session' = campaign_data]_vars
        /\ [][\A r \in (campaign_data' \ campaign_data) \cup (session' \ session) :
                /\ r.integration_id = integration'.id
                /\ r.platform = integration'.platform_name]_vars

\* A fetch has stored facts for the user's integration, and a later request
\* that names an integration the user does not have has been refused
\* without a vendor call.
C28_Witness ==
    /\ pc = "returned"
    /\ integration = NoIntegration
    /\ api_calls = 0
    /\ campaign_data # {}
    /\ \A r \in campaign_data : r.integration_id = 1

\* The overall/N/A facts of the ACTIVE integrations of the logged-in user, of
\* the given platforms and dated within the period.
OverallFactsInRange(platforms, first, last) ==
    {r \in OverallRows(campaign_data) :
        /\ \E i \in integrations : /\ i.id = r.integration_id
                                   /\ i.user_id = CurrentUserId
                                   /\ i.status = "active"
        /\ r.platform \in platforms
        /\ r.date >= first
        /\ r.date <= last}

\* C29: the total spend and the total conversions the KPI endpoint returns for
\* a date range count every ingested campaign-day once: they equal the sums
\* over the overall/N/A facts of the user's active integrations in the range,
\* and the device, country, age_range and gender facts of the same
\* campaign-days are not added on top.  Checked between requests, when every
\* stored campaign-day has its overall fact.
C29_KpiCountsCampaignDayOnce ==
    \A start_date \in Dates : \A end_date \in Dates :
        start_date <= end_date =>
            LET kpis == get_kpis(campaign_data, integrations, CurrentUserId, "all",
                                 start_date, end_date)
                overall == OverallFactsInRange({GOOGLE_ADS, META_ADS}, start_date, end_date)
                rolled_up == \A r \in campaign_data : \E o \in OverallRows(campaign_data) :
                                 /\ o.integration_id = r.integration_id
                                 /\ o.platform = r.platform
                                 /\ o.campaign_id_platform = r.campaign_id_platform
                                 /\ o.date = r.date
            IN  (pc \in {"idle", "returned"} /\ rolled_up) =>
                    /\ kpis.status = 200
                    /\ kpis.total_spend = SumOf(overall, "spend")
                    /\ kpis.total_conversions = SumOf(overall, "conversions")

\* C27: when two fetch requests for one integration interleave, so that both
\* find a five-part key absent before either commits its insert, the
\* committed table never holds two rows with the same five-part key; the
\* unique constraint refuses the second commit, only the batch being written
\* is rolled back, and each stored breakdown fact carries the name and the
\* metrics written by one of the two requests.
C27_InterleavedFetches ==
    /\ [](\A r1, r2 \in campaign_data :
            ( /\ r1.integration_id = r2.integration_id
              /\ r1.campaign_id_platform = r2.campaign_id_platform
              /\ r1.date = r2.date
              /\ r1.breakdown_type = r2.breakdown_type
              /\ r1.breakdown_value = r2.breakdown_value ) => r1 = r2)
    /\ [](\A r \in campaign_data :
            r.breakdown_type # "overall" =>
                \E k \in DOMAIN requests :
                    /\ r.campaign_name_platform = requests[k].vendor_campaign_name
                    /\ r.impressions = requests[k].vendor_metrics.impressions
                    /\ r.clicks = requests[k].vendor_metrics.clicks
                    /\ r.spend = requests[k].vendor_metrics.cost_micros \div 10000
                    /\ r.conversions = requests[k].vendor_metrics.conversions_tenths \div 10)
    /\ [][\A k \in DOMAIN requests :
            (requests[k].pc = "google_stream" /\ requests'[k].last_commit = "failed"
                /\ requests'[k] # requests[k]) =>
                \A d \in requests[k].dirty :
                    <<d.row.integration_id, d.row.campaign_id_platform, d.row.date,
                      d.row.breakdown_type, d.row.breakdown_value>> \in requests[k].batch_keys]_vars

(***************************************************************************)
(* Properties of the webhook state machine.                                *)
(***************************************************************************)
\* A checkout event that carries its three ids and names a known user, with
\* a customer id no other user holds.
WellFormedCheckouts ==
    {event \in CheckoutEvents :
        /\ event.customer # ""
        /\ event.client_reference_id \in UserIds
        /\ \A u \in UserIds \ {event.client_reference_id} : users[u] # event.customer}

\* C4: a checkout.session.completed event delivered once or twice, Stripe and
\* the database answering, leaves exactly one subscription row for its
\* provider subscription id, and no provider subscription id has two rows.
C4_ExactlyOneRow ==
    \A event \in WellFormedCheckouts :
        LET once == Deliver(Db, event, BaseEnv)
            twice == Deliver(once, event, BaseEnv)
        IN  /\ Cardinality(FilterBySubscriptionId(once.user_subscriptions,
                                                  event.subscription)) = 1
            /\ Cardinality(FilterBySubscriptionId(twice.user_subscriptions,
                                                  event.subscription)) = 1
            /\ SubscriptionsOK(twice.user_subscriptions)

C6_CancelledStaysCancelled ==
    \A event \in SubscriptionUpdatedEvents, env \in CommitEnvs :
        \A r \in FilterBySubscriptionId(user_subscriptions, event.subscription) :
            r.status = "cancelled" =>
                \A r2 \in FilterBySubscriptionId(Deliver(Db, event, env).user_subscriptions,
                                                 event.subscription) :
                    r2.status = "cancelled"

\* A webhook has been answered with 200, a subscription is cancelled, and a
\* general update that says "trialing" with a trial end is handled for it: it
\* changes the row's end date.
C6_Witness ==
    /\ response = 200
    /\ \E event \in SubscriptionUpdatedEvents, env \in CommitEnvs :
          /\ event.status = "trialing"
          /\ event.trial_end # 0
          /\ \E r \in FilterBySubscriptionId(user_subscriptions, event.subscription) :
                /\ r.status = "cancelled"
                /\ r.end_date = 1
                /\ r \notin Deliver(Db, event, env).user_subscriptions

\* C7: delivering an event twice, the environment answering the same both
\* times, leaves users and subscriptions as delivering it once does.
C7_TwiceIsOnce ==
    \A d \in Deliveries :
        Deliver(Deliver(Db, d[1], d[2]), d[1], d[2]) = Deliver(Db, d[1], d[2])

\* An invoice payment has moved a subscription's period end, and some
\* delivery would change the tables again.
C7_Witness ==
    /\ response = 200
    /\ \E r \in user_subscriptions : r.end_date = 2 /\ r.status = "active"
    /\ \E d \in Deliveries :
          /\ d[1].type = "invoice.payment_succeeded"
          /\ Deliver(Db, d[1], d[2]) # Db

\* C8: a request answered with a status other than 200 leaves the committed
\* users and subscriptions as they were.
C8_FailureChangesNothing ==
    [][response' # 200 => (users' = users /\ user_subscriptions' = user_subscriptions)]_vars

\* A request has been answered with 500, and a checkout whose subscription
\* lookup fails is handled in this state: it cancels an older subscription in
\* its session and answers 500.
C8_Witness ==
    /\ response = 500
    /\ \E event \in CheckoutEvents :
          LET a == stripe_webhook(Db, event, [BaseEnv EXCEPT !.retrieve = "error"])
          IN  /\ a.response = 500
              /\ a.session.user_subscriptions # user_subscriptions

\* C12: in every state, of the committed table and of the session alike, an
\* overall/N/A fact exists for an (integration, campaign, date) only if at
\* least one device fact is stored for the same integration, campaign and
\* date; a run that finds no device fact for a key stores no overall for it.
C12_OverallNeedsDeviceFacts ==
    \A tbl \in {campaign_data, session} : \A r \in OverallRows(tbl) :
        DeviceRows(tbl, r.integration_id, r.platform, r.campaign_id_platform, r.date) # {}

\* A fetch reached the overall step and committed it, having processed a
\* campaign-date whose device facts were lost to a rollback: nothing is stored.
C12_Witness ==
    /\ pc = "returned"
    /\ ~vendor_error
    /\ last_commit = "ok"
    /\ processed_campaign_dates # {}
    /\ \A cd \in processed_campaign_dates :
          DeviceRows(campaign_data, integration.id, integration.platform_name, cd[1], cd[2]) = {}
    /\ OverallRows(campaign_data) = {}

(***************************************************************************)
(* Properties of the webhook's transitions.                                *)
(***************************************************************************)
\* The status the specification gives a subscription after an invoice is paid.
StatusAfterInvoicePaid(status, billing_reason) ==
    IF status = "trialing" /\ billing_reason = "subscription_cycle" THEN "active"
    ELSE IF status = "past_due" THEN "active"
    ELSE status

\* C13: in every state, when invoice.payment_succeeded is processed for a
\* locally known subscription (the provider answers the lookup and the commit
\* goes through, so the answer is 200), a trialing subscription becomes active
\* if the billing reason is the renewal cycle, a past_due one becomes active,
\* any other status stays, and the end date is the provider's current period
\* end in every one of these cases; nothing else of the row changes.
C13_InvoicePaid ==
    \A event \in InvoiceEvents("invoice.payment_succeeded"), env \in InvoiceEnvs :
        \A r \in FilterBySubscriptionId(user_subscriptions, event.subscription) :
            /\ (env.retrieve = "ok" /\ env.db_ok) => Handled(event, env).response = 200
            /\ (env.retrieve = "ok" /\ Handled(event, env).response = 200) =>
                  FilterBySubscriptionId(Handled(event, env).user_subscriptions, event.subscription)
                      = {[r EXCEPT !.status = StatusAfterInvoicePaid(r.status, event.billing_reason),
                                   !.end_date = env.current_period_end]}

\* A subscription has gone past_due by an earlier event, and the paid invoice
\* makes it active with a later end date.
C13_Witness ==
    /\ response = 200
    /\ \E event \in InvoiceEvents("invoice.payment_succeeded"), env \in InvoiceEnvs :
          \E r \in FilterBySubscriptionId(user_subscriptions, event.subscription) :
              /\ r.status = "past_due"
              /\ r.end_date = 1
              /\ Handled(event, env).response = 200
              /\ [r EXCEPT !.status = "active", !.end_date = 2]
                     \in Handled(event, env).user_subscriptions

\* C14: in every state, when customer.subscription.deleted, or
\* customer.subscription.updated with cancel_at_period_end set, is processed
\* (answered with 200) for a stored subscription that is not cancelled, the
\* row becomes cancelled and its end date is the instant the payload supplies
\* (ended_at for deleted, cancel_at for the update; the stored end date stays
\* when the payload supplies none); for a row that is already cancelled the
\* answer is 200 and no user or subscription changes.
C14_Cancellation ==
    \A event \in CancellationEvents, env \in CommitEnvs :
        \A r \in FilterBySubscriptionId(user_subscriptions, event.subscription) :
            LET instant == IF event.type = "customer.subscription.deleted"
                           THEN event.ended_at ELSE event.cancel_at
            IN  /\ r.status = "cancelled" =>
                      Handled(event, env) = [users |-> users,
                                             user_subscriptions |-> user_subscriptions,
                                             response |-> 200]
                /\ (r.status # "cancelled" /\ env.db_ok) => Handled(event, env).response = 200
                /\ (r.status # "cancelled" /\ Handled(event, env).response = 200) =>
                      FilterBySubscriptionId(Handled(event, env).user_subscriptions,
                                             event.subscription)
                          = {[r EXCEPT !.status = "cancelled",
                                       !.end_date = IF instant # 0 THEN instant ELSE @]}

\* An active subscription is set to cancel at the end of the period: the row
\* becomes cancelled and takes cancel_at as its end date.
C14_Witness ==
    /\ response = 200
    /\ \E event \in CancellationEvents, env \in CommitEnvs :
          \E r \in FilterBySubscriptionId(user_subscriptions, event.subscription) :
              /\ event.type = "customer.subscription.updated"
              /\ event.cancel_at = 2
              /\ r.status = "active"
              /\ r.end_date = 1
              /\ [r EXCEPT !.status = "cancelled", !.end_date = 2]
                     \in Handled(event, env).user_subscriptions

\* Deliveries of the four event kinds that look a subscription up.
LookupDeliveries ==
    (InvoiceEvents("invoice.payment_succeeded") \X InvoiceEnvs)
    \cup (InvoiceEvents("invoice.payment_failed") \X CommitEnvs)
    \cup (CancellationEvents \X CommitEnvs)
    \cup (SubscriptionUpdatedEvents \X CommitEnvs)

\* C15: in every state, an event of a type the endpoint does not handle, and
\* an invoice-paid, invoice-payment-failed, subscription-updated or
\* subscription-deleted event whose subscription id matches no stored row, is
\* answered with 200 and leaves every user and every subscription as it was.
C15_IgnoredEvents ==
    /\ \A event \in UnhandledEvents, env \in CheckoutEnvs \cup InvoiceEnvs :
           Handled(event, env) = [users |-> users, user_subscriptions |-> user_subscriptions,
                                  response |-> 200]
    /\ \A d \in LookupDeliveries :
           FilterBySubscriptionId(user_subscriptions, d[1].subscription) = {} =>
               Handled(d[1], d[2]) = [users |-> users, user_subscriptions |-> user_subscriptions,
                                      response |-> 200]

\* A webhook was answered with 200 and the tables are still the initial ones,
\* with no row for a subscription that each of the four event kinds names.
C15_Witness ==
    /\ response = 200
    /\ user_subscriptions \in SeedTables
    /\ \A type \in {"invoice.payment_succeeded", "invoice.payment_failed",
                     "customer.subscription.updated", "customer.subscription.deleted"} :
          \E d \in LookupDeliveries :
              /\ d[1].type = type
              /\ d[1].subscription # ""
              /\ FilterBySubscriptionId(user_subscriptions, d[1].subscription) = {}

(***************************************************************************)
(* Functions of the program observed one call at a time: the arguments are *)
(* drawn from bounded sets, `call' records them and `result' what the code *)
(* computes from them.                                                     *)
(***************************************************************************)
MaxCalls == 3

\* The fetch routes do nothing and the fact table stays empty.
IngestIdle ==
    /\ integrations = {}
    /\ campaign_data = {}
    /\ fetches = 0
    /\ vendor_campaign_name = ""
    /\ session = {}
    /\ pc = "idle"
    /\ integration = NoIntegration
    /\ processed_campaign_dates = {}
    /\ row_count = <<>>
    /\ batch_count = 0
    /\ batch_rows = 0
    /\ config_index = 0
    /\ api_data_dates = {}
    /\ run_ok = TRUE
    /\ vendor_error = FALSE
    /\ api_calls = 0
    /\ batch_base = {}
    /\ last_commit = "none"
    /\ vendor_total = ZeroTotal

\* The argument lists of an upsert made by the fetch route of integration i:
\* the platform is the one the route is written for.
UpsertArguments(i) ==
    {NewCampaignData(i.id, i.platform_name, c, n, d, b[1], b[2],
                     m.impressions, m.clicks, m.spend, m.conversions) :
        c \in CampaignIds, n \in CampaignNames, d \in Dates,
        b \in {<<"device", "mobile">>, <<"device", "unknown">>, <<"country", "US">>},
        m \in {[impressions |-> 10, clicks |-> 2, spend |-> 150, conversions |-> 1],
               [impressions |-> 20, clicks |-> 3, spend |-> 200, conversions |-> 2]}}

\* The tables the session may hold when the upsert runs: facts written by
\* earlier upserts of the same route, no two with the same unique key.
FactTables(i) == {tbl \in SUBSET UpsertArguments(i) : IntegrityOK(tbl)}

\* The first upsert of a fact into a table (integration.py:219-240, 912-936).
UpsertCall ==
    /\ call = NoCall
    /\ \E i \in AdPlatformIntegration : \E tbl \in FactTables(i), new \in UpsertArguments(i) :
          /\ call' = [fn |-> "upsert", tbl |-> tbl, new |-> new, n |-> 1,
                      first |-> Upsert(tbl, new)]
          /\ result' = Upsert(tbl, new)
    /\ UNCHANGED <<ingest_vars, billing_vars, oauth_vars, race_vars>>

\* The same upsert once more, with identical arguments, on the table it left.
UpsertAgain ==
    /\ call.fn = "upsert"
    /\ call.n < MaxCalls
    /\ call' = [call EXCEPT !.n = @ + 1]
    /\ result' = Upsert(result, call.new)
    /\ UNCHANGED <<ingest_vars, billing_vars, oauth_vars, race_vars>>

\* The days on which a fetch may run, as day numbers (date.toordinal()).
Todays == 8..20

\* Step 6 of google_ads_fetch_data: the bounds of "segments.date BETWEEN".
google_date_range(today) == [since |-> today - 7, until |-> today]

\* meta_ads_fetch_data: 'since' and 'until' of time_range, from the UTC date.
meta_date_range(utc_today) == [since |-> utc_today - 7, until |-> utc_today]

\* A fetch computes the date range it asks the vendor for.
DateRangeCall ==
    /\ call = NoCall
    /\ \E today \in Todays, platform \in {GOOGLE_ADS, META_ADS} :
          /\ call' = [fn |-> "date_range", platform |-> platform, today |-> today]
          /\ result' = IF platform = GOOGLE_ADS THEN google_date_range(today)
                        ELSE meta_date_range(today)
    /\ UNCHANGED <<ingest_vars, billing_vars, oauth_vars, race_vars>>

\* The segment values a vendor may send for a dimension: the members of the
\* Google Ads enums, and for Meta Ads the documented strings and some others.
VendorValues(platform, dimension) ==
    IF platform = GOOGLE_ADS
    THEN CASE dimension = "device" -> DeviceEnum
           [] dimension = "age_range" ->
                {"UNSPECIFIED", "UNKNOWN", "AGE_RANGE_18_24", "AGE_RANGE_25_34",
                 "AGE_RANGE_35_44", "AGE_RANGE_45_54", "AGE_RANGE_55_64", "AGE_RANGE_65_UP",
                 "AGE_RANGE_UNDETERMINED"}
           [] dimension = "gender" -> {"UNSPECIFIED", "UNKNOWN", "MALE", "FEMALE", "UNDETERMINED"}
    ELSE CASE dimension = "device" -> MetaDeviceValues \cup {"unknown", "wearable"}
           [] dimension = "age_range" -> {"13-17", "18-24", "25-34", "65+", "Unknown"}
           [] dimension = "gender" -> {"male", "female", "unknown", "other"}

\* The breakdown value the fetcher of the platform stores for a segment value.
StoredBreakdownValue(platform, dimension, value) ==
    IF platform = GOOGLE_ADS
    THEN CASE dimension = "device" -> GoogleDeviceValue(value)
           [] dimension = "age_range" -> GoogleAgeValue(value)
           [] dimension = "gender" -> GoogleGenderValue(value)
    ELSE MetaBreakdownValue(dimension, value)

\* A fetcher normalises the segment value of a vendor row.
NormalizeCall ==
    /\ call = NoCall
    /\ \E platform \in {GOOGLE_ADS, META_ADS}, dimension \in {"device", "age_range", "gender"} :
          \E value \in VendorValues(platform, dimension) :
              /\ call' = [fn |-> "normalize", platform |-> platform, dimension |-> dimension,
                          value |-> value]
              /\ result' = StoredBreakdownValue(platform, dimension, value)
    /\ UNCHANGED <<ingest_vars, billing_vars, oauth_vars, race_vars>>

(***************************************************************************)
(* analyze_campaign_spend_for_anomalies (routes/ai_insights.py).  Spends   *)
(* are whole currency units.  With n values of sum S and sum of squares Q, *)
(* the mean is S/n and the population standard deviation sqrt(V)/n where   *)
(* V = n*Q - S*S; every comparison of the code is made on these integers.  *)
(***************************************************************************)
RECURSIVE SumList(_)
SumList(list) == IF list = <<>> THEN 0 ELSE Head(list) + SumList(Tail(list))

\* n*n times the variance np.std takes the root of
ScaledVariance(list) ==
    Len(list) * SumList([i \in DOMAIN list |-> list[i] * list[i]])
        - SumList(list) * SumList(list)

\* n times (most_recent_day_spend - mean_spend)
ScaledDeviation(list, recent) == Len(list) * recent - SumList(list)

\* x > threshold_std_devs * std_dev_spend, with x given as n*x and 2.5 as 5/2
BeyondThreshold(scaled_x, list) ==
    scaled_x > 0 /\ 4 * scaled_x * scaled_x > 25 * ScaledVariance(list)

\* std_dev_spend > (mean_spend * 0.05)
StdDevIsSignificant(list) ==
    SumList(list) < 0 \/ 400 * ScaledVariance(list) > SumList(list) * SumList(list)

\* A drop test that would also accept a spend of exactly 10% of the mean.
is_drop_to_a_tenth(list, recent) ==
    SumList(list) > 10 * Len(list) /\ 10 * Len(list) * recent <= SumList(list)

\* mean_spend > 10 and most_recent_day_spend < (mean_spend * 0.1)
is_significant_drop(list, recent) ==
    SumList(list) > 10 * Len(list) /\ 10 * Len(list) * recent < SumList(list)

NoAnomaly == [direction |-> "none", message |-> "none"]

\* The direction of the anomaly and which message was built, or None.
analyze_campaign_spend_for_anomalies(daily_spends_list, most_recent_day_spend) ==
    IF Len(daily_spends_list) < 7 THEN NoAnomaly
    ELSE IF StdDevIsSignificant(daily_spends_list) \/ SumList(daily_spends_list) = 0
    THEN IF BeyondThreshold(ScaledDeviation(daily_spends_list, most_recent_day_spend),
                            daily_spends_list)
         THEN [direction |-> "high", message |-> "Significantly higher spend"]
         ELSE IF BeyondThreshold(-ScaledDeviation(daily_spends_list, most_recent_day_spend),
                                 daily_spends_list)
         THEN [direction |-> "low", message |-> "Significantly lower spend"]
         ELSE NoAnomaly
    ELSE IF is_significant_drop(daily_spends_list, most_recent_day_spend)
    THEN [direction |-> "low", message |-> "Spend dropped significantly"]
    ELSE NoAnomaly

\* One call of the detector.  Baselines are k days at one spend followed by
\* days at another, of lengths on both sides of the minimum of 7.
AnalyzeCall ==
    /\ call = NoCall
    /\ \E n \in {0, 3, 6, 7, 8}, k \in 0..3,
          a \in {0, 10, 20, 100, 120}, b \in {0, 10, 20, 100, 120},
          most_recent_day_spend \in {0, 1, 2, 5, 9, 10, 11, 12, 50, 100, 130, 200, 400} :
        LET daily_spends_list == [i \in 1..n |-> IF i <= k THEN a ELSE b] IN
          /\ call' = [fn |-> "analyze", baseline |-> daily_spends_list,
                      recent |-> most_recent_day_spend]
          /\ result' = analyze_campaign_spend_for_anomalies(daily_spends_list,
                                                            most_recent_day_spend)
    /\ UNCHANGED <<ingest_vars, billing_vars, oauth_vars, race_vars>>

(***************************************************************************)
(* analyze_data_trend (routes/ai_insights.py).  Metric values are whole    *)
(* thousandths, so that fractions such as rates can be passed.  For the    *)
(* values y[1..n] at x = 0..n-1 the slope and intercept of the line that   *)
(* np.polyfit fits are quotients of integers, and are kept exact.          *)
(***************************************************************************)
Abs(x) == IF x < 0 THEN -x ELSE x

\* Python's round to a whole number of x = num/den, den > 0: the nearest
\* integer, an exact tie going to the even one.
round(num, den) ==
    LET q == num \div den
        r == num - q * den
    IN  IF 2 * r < den THEN q
        ELSE IF 2 * r > den THEN q + 1
        ELSE IF q % 2 = 0 THEN q ELSE q + 1

\* np.polyfit(x, y, 1) for x = 0..n-1: slope = slope_num/den and
\* intercept = intercept_num/den.
polyfit(list) ==
    LET n == Len(list)
        sx == SumList([i \in 1..n |-> i - 1])
        sxx == SumList([i \in 1..n |-> (i - 1) * (i - 1)])
        sxy == SumList([i \in 1..n |-> (i - 1) * list[i]])
    IN  [slope_num |-> n * sxy - sx * SumList(list),
         intercept_num |-> SumList(list) * sxx - sx * sxy,
         den |-> n * sxx - sx * sx]

\* slope and intercept are returned in hundredths: round(x, 2) of thousandths.
analyze_data_trend(daily_metric_values_list) ==
    IF Len(daily_metric_values_list) < 3
    THEN [slope |-> 0, intercept |-> 0, trend_direction |-> "insufficient_data"]
    ELSE
    LET n == Len(daily_metric_values_list)
        fit == polyfit(daily_metric_values_list)
        abs_sum == Abs(SumList(daily_metric_values_list))     \* n * abs(avg_value)
        trend_direction ==
            IF 1000 * abs_sum > n                             \* abs(avg_value) > 1e-6
            THEN IF 50 * n * fit.slope_num > abs_sum * fit.den
                 THEN "upward"
                 ELSE IF 50 * n * fit.slope_num < -(abs_sum * fit.den)
                 THEN "downward"
                 ELSE "flat"
            ELSE IF 1000 * fit.slope_num > fit.den THEN "upward"        \* slope > 1e-6
            ELSE IF 1000 * fit.slope_num < -fit.den THEN "downward"
            ELSE "flat"
    IN  [slope |-> round(fit.slope_num, 10 * fit.den),
         intercept |-> round(fit.intercept_num, 10 * fit.den),
         trend_direction |-> trend_direction]

\* One call of the trend analysis on a list that starts at a, moves by d a
\* day and is e off the line on day j.
TrendCall ==
    /\ call = NoCall
    /\ \E n \in 0..5, a \in {-1000, 0, 96, 10000, 30000, 50000},
          d \in {-10000, -1000, -4, -1, 0, 1, 4, 1000, 10000},
          e \in {-300, 0, 200}, j \in {2, 4} :
        LET daily_metric_values_list ==
                [i \in 1..n |-> a + (i - 1) * d + (IF i = j THEN e ELSE 0)] IN
          /\ call' = [fn |-> "trend", values |-> daily_metric_values_list]
          /\ result' = analyze_data_trend(daily_metric_values_list)
    /\ UNCHANGED <<ingest_vars, billing_vars, oauth_vars, race_vars>>

(***************************************************************************)
(* calculate_metric_changes and the top-movers lists of get_top_movers     *)
(* (routes/ai_insights.py).  A data map is a function from campaign keys   *)
(* to [name, total]; totals are whole thousandths.  The changes come back  *)
(* in the order in which the set of keys is iterated.                      *)
(***************************************************************************)
calculate_metric_changes(all_campaign_keys, current_data_map, prev_data_map, metric) ==
    [i \in DOMAIN all_campaign_keys |->
        LET key == all_campaign_keys[i]
            current_val == IF key \in DOMAIN current_data_map
                           THEN current_data_map[key].total ELSE 0
            prev_val == IF key \in DOMAIN prev_data_map
                        THEN prev_data_map[key].total ELSE 0
            campaign_name ==
                IF key \in DOMAIN current_data_map /\ current_data_map[key].name # ""
                THEN current_data_map[key].name
                ELSE IF key \in DOMAIN prev_data_map /\ prev_data_map[key].name # ""
                THEN prev_data_map[key].name
                ELSE "Campaign ID"
            abs_change == current_val - prev_val
        IN  [campaign_id |-> key,
             campaign_name |-> campaign_name,
             current_value |-> round(current_val, 10),           \* round(., 2)
             previous_value |-> round(prev_val, 10),
             absolute_change |-> round(abs_change, 10),
             \* round(., 1), in tenths of a percent
             percentage_change |->
                 IF prev_val # 0
                 THEN (IF prev_val > 0 THEN round(1000 * abs_change, prev_val)
                       ELSE round(-1000 * abs_change, -prev_val))
                 ELSE IF current_val # 0 THEN 1000 ELSE 0,
             metric |-> metric]]

\* sorted(changes, key = absolute_change, reverse = descending): stable.
RECURSIVE sorted(_, _)
sorted(changes, descending) ==
    IF changes = <<>> THEN <<>>
    ELSE LET rest == sorted(Tail(changes), descending)
             x == Head(changes)
             Before(y) == IF descending THEN y.absolute_change > x.absolute_change
                          ELSE y.absolute_change < x.absolute_change
             n == Cardinality({j \in DOMAIN rest : Before(rest[j])})
         IN  SubSeq(rest, 1, n) \o <<x>> \o SubSeq(rest, n + 1, Len(rest))

\* Lists without the limit of five entries.
top_movers_unlimited(changes) ==
    [gainers |-> SelectSeq(sorted(changes, TRUE), LAMBDA c : c.absolute_change > 0),
     decliners |-> sorted(SelectSeq(sorted(changes, TRUE),
                                    LAMBDA c : c.absolute_change < 0), FALSE)]

\* Steps 9 and 10 of get_top_movers.
top_movers(changes) ==
    LET sorted_by_abs_change == sorted(changes, TRUE)
        gainers == SelectSeq(sorted_by_abs_change, LAMBDA c : c.absolute_change > 0)
        decliners == sorted(SelectSeq(sorted_by_abs_change,
                                      LAMBDA c : c.absolute_change < 0), FALSE)
    IN  [gainers |-> SubSeq(gainers, 1, IF Len(gainers) < 5 THEN Len(gainers) ELSE 5),
         decliners |-> SubSeq(decliners, 1,
                              IF Len(decliners) < 5 THEN Len(decliners) ELSE 5)]

\* Totals of the two periods of one campaign; -1 stands for a campaign that
\* has no row in the period.
PeriodTotals ==
    {t \in [current : {-1, 0, 4, 1000, 150000}, prev : {-1, 0, 3000, 100000}] :
        t.current # -1 \/ t.prev # -1}

\* One request for the top movers of n campaigns: the first k have totals
\* t1 and the others t2 plus a few thousandths that differ by campaign; the
\* keys are iterated upwards or downwards.
TopMoversCall ==
    /\ call = NoCall
    /\ \E n \in 0..7, k \in {0, 1, 6}, t1 \in PeriodTotals, t2 \in PeriodTotals,
          upwards \in BOOLEAN :
        LET Totals(i) == IF i <= k THEN t1
                         ELSE [current |-> IF t2.current = -1 THEN -1
                                           ELSE t2.current + 7 * i,
                               prev |-> t2.prev]
            current_data_map ==
                [i \in {j \in 1..n : Totals(j).current # -1} |->
                    [name |-> IF i % 2 = 0 THEN "" ELSE "Alpha",
                     total |-> Totals(i).current]]
            prev_data_map ==
                [i \in {j \in 1..n : Totals(j).prev # -1} |->
                    [name |-> IF i % 3 = 0 THEN "" ELSE "Beta",
                     total |-> Totals(i).prev]]
            all_campaign_keys == [i \in 1..n |-> IF upwards THEN i ELSE n + 1 - i]
            changes == calculate_metric_changes(all_campaign_keys, current_data_map,
                                                prev_data_map, "spend")
        IN  /\ call' = [fn |-> "top_movers", all_keys |-> all_campaign_keys,
                        current |-> current_data_map, prev |-> prev_data_map]
            /\ result' = [changes |-> changes] @@ top_movers(changes)
    /\ UNCHANGED <<ingest_vars, billing_vars, oauth_vars, race_vars>>

(***************************************************************************)
(* budget_simulator_api (routes/optimization.py).  A JSON value is a       *)
(* record of its kind and, for numbers, its value in whole thousandths; a  *)
(* JSON boolean counts in Python as the int 1 or 0, which num records.     *)
(***************************************************************************)
JsonScalars(numbers) ==
    [kind : {"number"}, num : numbers]
        \cup {[kind |-> "null", num |-> 0], [kind |-> "string", num |-> 0],
              [kind |-> "bool", num |-> 1000], [kind |-> "bool", num |-> 0]}

\* The bodies of the request: no JSON, a JSON array, or an object whose
\* absent members read as null.
BudgetPayloads ==
    {[kind |-> "null"], [kind |-> "list", items |-> <<>>],
     [kind |-> "list", items |-> <<[kind |-> "number", num |-> 1000]>>],
     [kind |-> "object", empty |-> TRUE]}
    \cup
    [kind : {"object"}, empty : {FALSE},
     current_cpc : JsonScalars({-1000, 0, 500, 2000}),
     current_cvr_clicks : JsonScalars({-1, 0, 50, 1000, 1001}),
     budget_scenarios :
        [kind : {"null", "string", "number"}, num : {100000}]
        \cup [kind : {"list"},
              items : UNION {[1..n -> JsonScalars({-5000, 0, 10005, 100000})
                                        \ {[kind |-> "null", num |-> 0],
                                           [kind |-> "bool", num |-> 0]}] : n \in 0..2}]]

budget_simulator_api(data) ==
    LET Error(status, error) == [status |-> status, error |-> error, scenarios |-> <<>>]
        \* isinstance(x, (int, float))
        IsNumber(x) == x.kind \in {"number", "bool"}
    IN
    IF data.kind = "null" \/ (data.kind = "list" /\ data.items = <<>>)
        \/ (data.kind = "object" /\ data.empty)
    THEN Error(400, "Missing JSON payload.")
    ELSE IF data.kind # "object"
    THEN Error(500, "AttributeError")                \* data.get on a value that has none
    ELSE
    LET current_cpc == data.current_cpc
        current_cvr_clicks == data.current_cvr_clicks
        budget_scenarios_input == data.budget_scenarios
    IN
    IF current_cpc.kind = "null" \/ current_cvr_clicks.kind = "null"
    THEN Error(400, "current_cpc and current_cvr_clicks are required.")
    ELSE IF ~IsNumber(current_cpc) \/ ~IsNumber(current_cvr_clicks)
    THEN Error(400, "CPC and CVR must be numbers.")
    ELSE IF budget_scenarios_input.kind # "list" \/ budget_scenarios_input.items = <<>>
    THEN Error(400, "budget_scenarios must be a non-empty list of positive numbers.")
    ELSE IF ~\A i \in DOMAIN budget_scenarios_input.items :
                /\ IsNumber(budget_scenarios_input.items[i])
                /\ budget_scenarios_input.items[i].num > 0
    THEN Error(400, "All budget scenarios must be positive numbers.")
    ELSE IF current_cpc.num <= 0
    THEN Error(400, "Current CPC must be greater than zero.")
    ELSE IF ~(0 <= current_cvr_clicks.num /\ current_cvr_clicks.num <= 1000)
    THEN Error(400, "Current CVR (Click-based) must be between 0 (0%) and 1 (100%).")
    ELSE
    [status |-> 200, error |-> "",
     scenarios |->
        [i \in DOMAIN budget_scenarios_input.items |->
            LET budget == budget_scenarios_input.items[i].num
                \* projected_conversions = budget / current_cpc * current_cvr_clicks
                conversions_num == budget * current_cvr_clicks.num
            IN  [budget |-> round(budget, 10),                        \* hundredths
                 projected_clicks |-> round(budget, current_cpc.num),  \* whole clicks
                 projected_spend |-> round(budget, 10),
                 projected_conversions |-> round(conversions_num, 10 * current_cpc.num),
                 projected_cpa |->
                    IF conversions_num > 0
                    THEN round(100 * current_cpc.num, current_cvr_clicks.num)
                    ELSE 0]]]

BudgetSimulatorCall ==
    /\ call = NoCall
    /\ \E data \in BudgetPayloads :
          /\ call' = [fn |-> "budget_simulator", data |-> data]
          /\ result' = budget_simulator_api(data)
    /\ UNCHANGED <<ingest_vars, billing_vars, oauth_vars, race_vars>>

(***************************************************************************)
(* get_spend_anomalies (routes/ai_insights.py).  Dates are day numbers;    *)
(* the stored spends are whole currency units, so float(row.spend) is the  *)
(* number of hundredths divided by 100.                                    *)
(***************************************************************************)
\* Step 1: the facts of the user's ACTIVE integrations dated from 29 days
\* before yesterday up to yesterday.
campaigns_data(tbl, integs, user_id, today) ==
    {r \in tbl : /\ \E i \in integs : /\ i.id = r.integration_id
                                     /\ i.user_id = user_id
                                     /\ i.status = "active"
                 /\ r.date >= (today - 1) - 29
                 /\ r.date <= today - 1}

\* ORDER BY date: rows of one date come in the order the database gives.
RECURSIVE OrderedByDate(_)
OrderedByDate(rows) ==
    IF rows = {} THEN <<>>
    ELSE LET r == CHOOSE x \in rows : \A y \in rows : x.date <= y.date
         IN  <<r>> \o OrderedByDate(rows \ {r})

\* Steps 2 and 3 for one (campaign id, platform) key: whether the campaign is
\* analysed, the baseline list, and the values the recent spend may take (the
\* last row of yesterday in an order the query leaves open).
SpendAnomalyInputs(rows, key, today) ==
    LET end_date_for_calc == today - 1
        metrics == OrderedByDate({r \in rows : /\ r.campaign_id_platform = key[1]
                                               /\ r.platform = key[2]})
        before_end == SelectSeq(metrics, LAMBDA m : m.date < end_date_for_calc)
    IN  [analysed |-> \E j \in DOMAIN metrics : metrics[j].date = end_date_for_calc,
         baseline_spends |-> [j \in DOMAIN before_end |-> before_end[j].spend \div 100],
         recent_spends |-> {metrics[j].spend \div 100 :
                               j \in {k \in DOMAIN metrics : metrics[k].date = end_date_for_calc}}]

\* What one vendor row of the day leaves in the table after a complete fetch:
\* its device, country, age_range and gender facts and the overall fact.
StoredDay(i, date_obj, cost_micros) ==
    LET row == [campaign_id |-> "c1", campaign_name |-> "Spring", date |-> date_obj,
                device |-> "MOBILE", geo_target_country |-> "countries/US",
                age_range_type |-> "AGE_RANGE_18_24", gender_type |-> "FEMALE",
                metrics |-> [impressions |-> 10, clicks |-> 2, cost_micros |-> cost_micros,
                             conversions_tenths |-> 10]]
    IN  RecomputeOverall(GoogleProcessRow({}, i, row), i.id, GOOGLE_ADS,
                         <<"c1", date_obj, "Spring">>)

\* One request to the spend-anomaly endpoint on day 31: the campaign was
\* fetched on some of the days 0 (out of the window), 27, 28, 29 and 30
\* (yesterday), with a spend of 5, 100 or 120.
SpendAnomaliesCall ==
    /\ call = NoCall
    /\ \E i \in {x \in AdPlatformIntegration :
                    x.platform_name = GOOGLE_ADS /\ x.ad_account_id = "1234567890"} :
       \E cost \in [{0, 27, 28, 29, 30} -> {0, 5000000, 100000000, 120000000}] :
        LET today == 31
            tbl == UNION {StoredDay(i, d, cost[d]) : d \in {x \in DOMAIN cost : cost[x] # 0}}
            rows == campaigns_data(tbl, {i}, CurrentUserId, today)
            inputs == SpendAnomalyInputs(rows, <<"c1", GOOGLE_ADS>>, today)
        IN  IF rows # {} /\ inputs.analysed
            THEN \E recent_spend \in inputs.recent_spends :
                   LET anomaly == analyze_campaign_spend_for_anomalies(
                                      inputs.baseline_spends, recent_spend)
                   IN  /\ call' = [fn |-> "spend_anomalies", table |-> tbl, integrations |-> {i},
                                   today |-> today, analysed |-> TRUE,
                                   baseline |-> inputs.baseline_spends, recent |-> recent_spend]
                       /\ result' = [anomalies |-> IF anomaly = NoAnomaly THEN <<>>
                                                  ELSE <<anomaly>>]
            ELSE /\ call' = [fn |-> "spend_anomalies", table |-> tbl, integrations |-> {i},
                             today |-> today, analysed |-> FALSE,
                             baseline |-> <<>>, recent |-> 0]
                 /\ result' = [anomalies |-> <<>>]
    /\ UNCHANGED <<ingest_vars, billing_vars, oauth_vars, race_vars>>

InitFunctions ==
    /\ IngestIdle
    /\ BillingIdle
    /\ AuxIdle

NextFunctions ==
    \/ UpsertCall
    \/ UpsertAgain
    \/ DateRangeCall
    \/ NormalizeCall
    \/ AnalyzeCall
    \/ TrendCall
    \/ TopMoversCall
    \/ BudgetSimulatorCall
    \/ SpendAnomaliesCall

SpecFunctions == InitFunctions /\ [][NextFunctions]_vars

(***************************************************************************)
(* The OAuth callbacks and the account selection routes                    *)
(* (routes/integration.py), one request at a time.                         *)
(***************************************************************************)
IntegrationStatusEnum == {"active", "revoked", "expired", "pending", "error"}

\* A column that is NULL.
NoToken == <<>>
\* utils/security.py: nothing to encrypt gives None, else the Fernet token.
encrypt_token(token) == IF token = "" THEN NoToken ELSE <<"fernet", token>>

\* datetime.utcnow() during a callback
utcnow == 10
\* datetime.utcnow() + timedelta(seconds=expires_in) if expires_in else None
token_expiry_time(expires_in) == IF expires_in # 0 THEN utcnow + expires_in ELSE 0

\* What Authlib returns from authorize_access_token(), or the error it raises.
GoogleTokenResponses ==
    {[error |-> FALSE, access_token |-> "at1", refresh_token |-> "rt1", expires_in |-> 1],
     [error |-> FALSE, access_token |-> "at2", refresh_token |-> "", expires_in |-> 2],
     [error |-> FALSE, access_token |-> "", refresh_token |-> "", expires_in |-> 0],
     [error |-> TRUE, access_token |-> "", refresh_token |-> "", expires_in |-> 0]}

MetaTokenResponses ==
    {[error |-> FALSE, access_token |-> "short", expires_in |-> 1],
     [error |-> FALSE, access_token |-> "", expires_in |-> 0],
     [error |-> TRUE, access_token |-> "", expires_in |-> 0]}

\* Answers of the fb_exchange_token call: a long-lived token, a body without
\* access_token, or a request that fails.
MetaExchanges ==
    {[error |-> FALSE, access_token |-> "long", expires_in |-> 60],
     [error |-> FALSE, access_token |-> "", expires_in |-> 0],
     [error |-> TRUE, access_token |-> "", expires_in |-> 0]}

\* Customer ids typed into the form, after strip(): the text and its characters.
CustomerIds ==
    {[text |-> "123-456-7890",
      chars |-> <<"1", "2", "3", "-", "4", "5", "6", "-", "7", "8", "9", "0">>],
     [text |-> "1234567890",
      chars |-> <<"1", "2", "3", "4", "5", "6", "7", "8", "9", "0">>],
     [text |-> "", chars |-> <<>>]}
\* re.match(r"^\d{3}-\d{3}-\d{4}$", customer_id)
MatchesCustomerId(customer_id) ==
    /\ Len(customer_id.chars) = 12
    /\ \A k \in 1..12 :
          IF k \in {4, 8} THEN customer_id.chars[k] = "-"
          ELSE customer_id.chars[k] \in {"0", "1", "2", "3", "4", "5", "6", "7", "8", "9"}

\* Ad account ids the Meta form may post; "" when none was chosen.
MetaAccountIds == {"act_1", ""}

\* A lookup that would only find integrations still waiting for an account.
pending_integration(tbl, user_id, platform_name) ==
    {r \in tbl : /\ r.user_id = user_id
                 /\ r.platform_name = platform_name
                 /\ r.ad_account_id = "pending_selection"}

\* AdPlatformIntegration.query.filter_by(user_id=current_user.id, platform_name=...)
existing_integration(tbl, user_id, platform_name) ==
    {r \in tbl : r.user_id = user_id /\ r.platform_name = platform_name}

\* The primary key the database gives the next row (no row is ever deleted).
NextIntegrationId(tbl) == Cardinality(tbl) + 1

\* db.session.commit() at the end of a route; a failure is rolled back.
CommitIntegrations(tbl, new_tbl, db_ok) == IF db_ok THEN new_tbl ELSE tbl

\* /google/callback
google_ads_callback(tbl, current_user, token_response, db_ok) ==
    LET found == existing_integration(tbl, current_user, GOOGLE_ADS)
        existing == CHOOSE r \in found : TRUE
        expiry == token_expiry_time(token_response.expires_in)
        updated == [existing EXCEPT
                       !.access_token_encrypted = encrypt_token(token_response.access_token),
                       !.refresh_token_encrypted =
                           IF token_response.refresh_token # ""
                           THEN encrypt_token(token_response.refresh_token) ELSE @,
                       !.token_expiry = expiry,
                       !.status = "active"]
        new_integration ==
            [id |-> NextIntegrationId(tbl), user_id |-> current_user,
             platform_name |-> GOOGLE_ADS, ad_account_id |-> "pending_selection",
             access_token_encrypted |-> encrypt_token(token_response.access_token),
             refresh_token_encrypted |-> encrypt_token(token_response.refresh_token),
             token_expiry |-> expiry, status |-> "active"]
    IN  IF token_response.error \/ token_response.access_token = "" THEN tbl
        ELSE IF found # {}
        THEN CommitIntegrations(tbl, (tbl \ {existing}) \cup {updated}, db_ok)
        ELSE CommitIntegrations(tbl, tbl \cup {new_integration}, db_ok)

\* /meta/callback: the short-lived token is exchanged for a long-lived one.
meta_ads_callback(tbl, current_user, token_response, exchange, db_ok) ==
    LET short_lived_token == token_response.access_token
        exchanged == ~exchange.error /\ exchange.access_token # ""
        final_access_token_to_store ==
            IF short_lived_token # "" /\ exchanged THEN exchange.access_token
            ELSE short_lived_token
        expiry == IF short_lived_token = "" \/ exchange.error THEN 0
                  ELSE IF exchanged THEN token_expiry_time(exchange.expires_in)
                  ELSE token_expiry_time(token_response.expires_in)
        found == existing_integration(tbl, current_user, META_ADS)
        existing == CHOOSE r \in found : TRUE
        updated == [existing EXCEPT
                       !.access_token_encrypted = encrypt_token(final_access_token_to_store),
                       !.token_expiry = expiry,
                       !.status = "active"]
        new_integration ==
            [id |-> NextIntegrationId(tbl), user_id |-> current_user,
             platform_name |-> META_ADS, ad_account_id |-> "pending_selection",
             access_token_encrypted |-> encrypt_token(final_access_token_to_store),
             refresh_token_encrypted |-> NoToken,
             token_expiry |-> expiry, status |-> "active"]
    IN  IF token_response.error \/ final_access_token_to_store = "" THEN tbl
        ELSE IF found # {}
        THEN CommitIntegrations(tbl, (tbl \ {existing}) \cup {updated}, db_ok)
        ELSE CommitIntegrations(tbl, tbl \cup {new_integration}, db_ok)

\* The row both selection routes load, or 404.
OwnIntegration(tbl, integration_id, current_user, platform_name) ==
    {r \in existing_integration(tbl, current_user, platform_name) : r.id = integration_id}

\* POST /metaads/select_account/<integration_id>
metaads_select_account(tbl, current_user, integration_id, ad_account_id, db_ok) ==
    LET found == OwnIntegration(tbl, integration_id, current_user, META_ADS)
        row == CHOOSE r \in found : TRUE
    IN  IF found = {} THEN tbl
        ELSE IF row.status = "active" /\ row.ad_account_id # "pending_selection" THEN tbl
        ELSE IF ad_account_id = "" THEN tbl
        ELSE CommitIntegrations(tbl,
                 (tbl \ {row}) \cup {[row EXCEPT !.ad_account_id = ad_account_id,
                                                 !.status = "active"]}, db_ok)

\* POST /googleads/select_account/<integration_id>
googleads_select_account(tbl, current_user, integration_id, customer_id, db_ok) ==
    LET found == OwnIntegration(tbl, integration_id, current_user, GOOGLE_ADS)
        row == CHOOSE r \in found : TRUE
    IN  IF found = {} THEN tbl
        ELSE IF row.status = "active" /\ row.ad_account_id # "pending_selection" THEN tbl
        ELSE IF customer_id.text = "" \/ ~MatchesCustomerId(customer_id) THEN tbl
        ELSE CommitIntegrations(tbl,
                 (tbl \ {row}) \cup {[row EXCEPT !.ad_account_id = customer_id.text,
                                                 !.status = "active"]}, db_ok)

\* The ids a selection URL may carry.
IntegrationIds == 1..(Cardinality(UserIds) * 2)

GoogleAdsCallback ==
    /\ \E current_user \in UserIds, token_response \in GoogleTokenResponses, db_ok \in BOOLEAN :
          ad_platform_integrations' =
              google_ads_callback(ad_platform_integrations, current_user, token_response, db_ok)
    /\ UNCHANGED <<ingest_vars, billing_vars, fn_vars, race_vars>>

MetaAdsCallback ==
    /\ \E current_user \in UserIds, token_response \in MetaTokenResponses,
          exchange \in MetaExchanges, db_ok \in BOOLEAN :
          ad_platform_integrations' =
              meta_ads_callback(ad_platform_integrations, current_user, token_response,
                                exchange, db_ok)
    /\ UNCHANGED <<ingest_vars, billing_vars, fn_vars, race_vars>>

MetaAdsSelectAccount ==
    /\ \E current_user \in UserIds, integration_id \in IntegrationIds,
          ad_account_id \in MetaAccountIds, db_ok \in BOOLEAN :
          ad_platform_integrations' =
              metaads_select_account(ad_platform_integrations, current_user, integration_id,
                                     ad_account_id, db_ok)
    /\ UNCHANGED <<ingest_vars, billing_vars, fn_vars, race_vars>>

GoogleAdsSelectAccount ==
    /\ \E current_user \in UserIds, integration_id \in IntegrationIds,
          customer_id \in CustomerIds, db_ok \in BOOLEAN :
          ad_platform_integrations' =
              googleads_select_account(ad_platform_integrations, current_user, integration_id,
                                       customer_id, db_ok)
    /\ UNCHANGED <<ingest_vars, billing_vars, fn_vars, race_vars>>

InitOAuth ==
    /\ IngestIdle
    /\ BillingIdle
    /\ AuxIdle

NextOAuth ==
    \/ GoogleAdsCallback
    \/ MetaAdsCallback
    \/ MetaAdsSelectAccount
    \/ GoogleAdsSelectAccount

SpecOAuth == InitOAuth /\ [][NextOAuth]_vars

(***************************************************************************)
(* Two deliveries of one checkout.session.completed event served at the    *)
(* same time.  Each request reads the committed tables when it looks the   *)
(* subscription up and writes them when it commits; the other request may  *)
(* commit in between.                                                      *)
(***************************************************************************)
\* The delivery gets past the idempotency check of stripe_webhook: the ids
\* are there, the user exists and no row has the subscription id.
PassesLookup(db, event) ==
    /\ event.client_reference_id # 0 /\ event.subscription # "" /\ event.customer # ""
    /\ event.client_reference_id \in DOMAIN db.users
    /\ UsersOK([db.users EXCEPT ![event.client_reference_id] = event.customer])
    /\ FilterBySubscriptionId(db.user_subscriptions, event.subscription) = {}

\* Request p handles the event up to the idempotency check; a delivery that
\* does not get past it is answered at once.
CheckoutLookup ==
    \E p \in DOMAIN requests :
        LET req == requests[p]
            other == requests[3 - p]
        IN  /\ req.pc = "received"
            /\ IF PassesLookup(Db, req.event)
               THEN /\ requests' =
                          [q \in DOMAIN requests |->
                              IF q = p
                              THEN [req EXCEPT !.pc = "looked_up", !.snapshot = Db,
                                               !.overlapped = (other.pc = "looked_up")]
                              ELSE [other EXCEPT !.overlapped =
                                                    @ \/ (other.pc = "looked_up")]]
                    /\ UNCHANGED billing_vars
               ELSE /\ requests' = [requests EXCEPT ![p].pc = "answered",
                                        ![p].response = Handled(req.event, req.env).response]
                    /\ users' = Handled(req.event, req.env).users
                    /\ user_subscriptions' = Handled(req.event, req.env).user_subscriptions
                    /\ response' = Handled(req.event, req.env).response
            /\ UNCHANGED <<ingest_vars, fn_vars, oauth_vars>>

\* Request p does the rest of the handler with what it read at the lookup,
\* and its commit meets the tables as they are now: the user's customer id
\* and the cancellations are updates, the new subscription is an insert that
\* the unique constraints may refuse.
CheckoutCreate ==
    \E p \in DOMAIN requests :
        LET req == requests[p]
            outcome == checkout_session_completed(req.snapshot, req.event, req.env)
            writes == outcome.users # req.snapshot.users
                        \/ outcome.user_subscriptions # req.snapshot.user_subscriptions
            new_users == [users EXCEPT ![req.event.client_reference_id] = req.event.customer]
            inserted ==
                {r \in outcome.user_subscriptions :
                    r.stripe_subscription_id = req.event.subscription}
            new_subscriptions ==
                CancelOlder(user_subscriptions, req.event.client_reference_id,
                            req.event.subscription) \cup inserted
            committed ==
                /\ writes
                /\ UsersOK(new_users)
                /\ \A r \in inserted :
                      FilterBySubscriptionId(user_subscriptions,
                                             r.stripe_subscription_id) = {}
            code == IF ~writes THEN outcome.response
                    ELSE IF committed THEN 200 ELSE 500
        IN  /\ req.pc = "looked_up"
            /\ users' = IF committed THEN new_users ELSE users
            /\ user_subscriptions' = IF committed THEN new_subscriptions
                                     ELSE user_subscriptions
            /\ response' = code
            /\ requests' = [requests EXCEPT ![p].pc = "answered", ![p].response = code]
            /\ UNCHANGED <<ingest_vars, fn_vars, oauth_vars>>

\* Stripe has sent one event twice; what Stripe's API and the database
\* answer may differ between the two requests.
InitCheckoutRace ==
    /\ IngestIdle
    /\ FunctionsIdle
    /\ OAuthIdle
    /\ users = [u \in UserIds |-> ""]
    /\ user_subscriptions \in SeedTables
    /\ response = 0
    /\ \E event \in CheckoutEvents :
          requests \in [1..2 -> [pc : {"received"}, event : {event}, env : CheckoutEnvs,
                                 snapshot : {<<>>}, overlapped : {FALSE}, response : {0}]]

NextCheckoutRace ==
    \/ CheckoutLookup
    \/ CheckoutCreate

SpecCheckoutRace == InitCheckoutRace /\ [][NextCheckoutRace]_vars

(***************************************************************************)
(* Two Google Ads fetch requests for one integration, served at the same   *)
(* time.  Each request has its own session and transaction: it sees the    *)
(* committed table overlaid by its own pending writes, its pending INSERTs *)
(* are sent at the next query (autoflush) or at commit, and the unique     *)
(* constraint refuses an INSERT whose key another request has committed.   *)
(***************************************************************************)
\* The table as a request sees it.
SessionView(db, dirty) ==
    {r \in db : \A d \in dirty : uq_campaign_daily_breakdown_metric(d.row)
                                    # uq_campaign_daily_breakdown_metric(r)}
        \cup {d.row : d \in dirty}

\* The pending writes after the request's table went from view to next_view:
\* a row whose key the request did not find is a pending INSERT.
PendingWrites(dirty, view, next_view) ==
    LET key(r) == uq_campaign_daily_breakdown_metric(r)
        written == next_view \ view
    IN  {d \in dirty : \A r \in written : key(r) # key(d.row)}
            \cup {[row |-> r,
                   new |-> \/ \A v \in view : key(v) # key(r)
                           \/ \E d \in dirty : d.new /\ key(d.row) = key(r)] : r \in written}

\* IntegrityError: a pending INSERT has the key of a committed row.
FlushFails(db, dirty) ==
    \E d \in dirty : /\ d.new
                     /\ \E r \in db : uq_campaign_daily_breakdown_metric(r)
                                         = uq_campaign_daily_breakdown_metric(d.row)

\* Steps 9-10 for one row of the current batch of one request.  The lookup
\* of the device fact flushes what is pending; an IntegrityError raised there
\* reaches "except Exception": rollback, and the request ends.
FetchRaceRow ==
    \E k \in DOMAIN requests :
        LET req == requests[k]
            i == CHOOSE x \in integrations : TRUE
            view == SessionView(campaign_data, req.dirty)
        IN  /\ req.pc = "google_stream"
            /\ req.batch_count < MaxBatches
            /\ req.batch_rows < MaxBatchRows
            /\ \E row \in {r \in GoogleAdsRow(req.vendor_campaign_name) :
                              r.metrics = req.vendor_metrics} :
                  requests' = [requests EXCEPT ![k] =
                      IF FlushFails(campaign_data, req.dirty)
                      THEN [req EXCEPT !.pc = "returned", !.dirty = {},
                                       !.last_commit = "failed"]
                      ELSE [req EXCEPT
                              !.dirty = PendingWrites(req.dirty, view,
                                                      GoogleProcessRow(view, i, row)),
                              !.processed_campaign_dates =
                                  @ \cup {<<row.campaign_id, row.date, row.campaign_name>>},
                              !.row_count = <<req.batch_rows>>,
                              !.batch_rows = @ + 1,
                              !.batch_keys = @ \cup
                                  {uq_campaign_daily_breakdown_metric(GoogleRowEntries(i, row)[j]) :
                                      j \in 1..4},
                              !.last_commit = "none"]]
            /\ UNCHANGED <<ingest_vars, billing_vars, fn_vars, oauth_vars>>

\* Step 11 for one request: commit if row_count > 0; a refused commit is
\* rolled back and the request goes on with the next batch.
FetchRaceBatchEnd ==
    \E k \in DOMAIN requests :
        LET req == requests[k]
            next == [req EXCEPT !.batch_count = @ + 1, !.batch_rows = 0, !.batch_keys = {}]
        IN  /\ req.pc = "google_stream"
            /\ req.batch_count < MaxBatches
            /\ IF req.row_count = <<>>
               THEN /\ requests' = [requests EXCEPT ![k] =
                          [next EXCEPT !.pc = "returned", !.dirty = {}, !.last_commit = "none"]]
                    /\ UNCHANGED campaign_data
               ELSE IF req.row_count[1] > 0
               THEN IF FlushFails(campaign_data, req.dirty)
                    THEN /\ requests' = [requests EXCEPT ![k] =
                               [next EXCEPT !.dirty = {}, !.last_commit = "failed"]]
                         /\ UNCHANGED campaign_data
                    ELSE /\ requests' = [requests EXCEPT ![k] =
                               [next EXCEPT !.dirty = {}, !.last_commit = "ok"]]
                         /\ campaign_data' = SessionView(campaign_data, req.dirty)
               ELSE /\ requests' = [requests EXCEPT ![k] = [next EXCEPT !.last_commit = "none"]]
                    /\ UNCHANGED campaign_data
            /\ UNCHANGED <<integrations, fetches, vendor_campaign_name, session, pc, integration,
                           processed_campaign_dates, row_count, batch_count, batch_rows,
                           config_index, api_data_dates, run_ok, vendor_error, api_calls,
                           batch_base, last_commit, vendor_total>>
            /\ UNCHANGED <<billing_vars, fn_vars, oauth_vars>>

\* Step 12 for one request: the sums are queried (which flushes what is
\* pending), the overall facts are written and committed.
FetchRaceOverall ==
    \E k \in DOMAIN requests :
        LET req == requests[k]
            i == CHOOSE x \in integrations : TRUE
            view == SessionView(campaign_data, req.dirty)
        IN  /\ req.pc = "google_stream"
            /\ req.batch_rows = 0
            /\ \E order \in IterationOrders(req.processed_campaign_dates) :
                  LET dirty == PendingWrites(req.dirty, view,
                                             RecomputeOveralls(view, i.id, GOOGLE_ADS, order))
                  IN  IF FlushFails(campaign_data, req.dirty)
                      THEN /\ requests' = [requests EXCEPT ![k] =
                                 [req EXCEPT !.pc = "returned", !.dirty = {},
                                             !.last_commit = "overall failed"]]
                           /\ UNCHANGED campaign_data
                      ELSE /\ requests' = [requests EXCEPT ![k] =
                                 [req EXCEPT !.pc = "returned", !.dirty = {},
                                             !.last_commit = "ok"]]
                           /\ campaign_data' = SessionView(campaign_data, dirty)
            /\ UNCHANGED <<integrations, fetches, vendor_campaign_name, session, pc, integration,
                           processed_campaign_dates, row_count, batch_count, batch_rows,
                           config_index, api_data_dates, run_ok, vendor_error, api_calls,
                           batch_base, last_commit, vendor_total>>
            /\ UNCHANGED <<billing_vars, fn_vars, oauth_vars>>

\* Two requests have loaded the same active integration and opened their
\* streams; the vendor answers each with its own metrics and campaign name.
InitFetchRace ==
    /\ BillingIdle
    /\ FunctionsIdle
    /\ OAuthIdle
    /\ integrations = {[id |-> 1, platform_name |-> GOOGLE_ADS, user_id |-> CurrentUserId,
                        status |-> "active", ad_account_id |-> "1234567890",
                        access_token |-> "token"]}
    /\ campaign_data = {}
    /\ fetches = 0
    /\ vendor_campaign_name = ""
    /\ session = {}
    /\ pc = "idle"
    /\ integration = NoIntegration
    /\ processed_campaign_dates = {}
    /\ row_count = <<>>
    /\ batch_count = 0
    /\ batch_rows = 0
    /\ config_index = 0
    /\ api_data_dates = {}
    /\ run_ok = TRUE
    /\ vendor_error = FALSE
    /\ api_calls = 0
    /\ batch_base = {}
    /\ last_commit = "none"
    /\ vendor_total = ZeroTotal
    /\ \E names \in [1..2 -> CampaignNames], metrics \in [1..2 -> GoogleMetrics] :
          /\ names[1] = "Spring"
          /\ metrics[1].impressions = 10
          /\ requests = [k \in 1..2 |->
                           [pc |-> "google_stream", vendor_campaign_name |-> names[k],
                            vendor_metrics |-> metrics[k], dirty |-> {},
                            processed_campaign_dates |-> {}, row_count |-> <<>>,
                            batch_count |-> 0, batch_rows |-> 0, batch_keys |-> {},
                            last_commit |-> "none"]]

NextFetchRace ==
    \/ FetchRaceRow
    \/ FetchRaceBatchEnd
    \/ FetchRaceOverall

SpecFetchRace == InitFetchRace /\ [][NextFetchRace]_vars

(***************************************************************************)
(* Properties of the functions.                                            *)
(***************************************************************************)
RowsOfKey(tbl, new) ==
    {r \in tbl : uq_campaign_daily_breakdown_metric(r) = uq_campaign_daily_breakdown_metric(new)}

\* C11: after a fact has been upserted once or several times with identical
\* arguments, the table holds exactly one row for its five-part key, that row
\* carries the call's campaign name and metrics exactly (also when the key was
\* stored before with other metrics or another name: they are replaced, never
\* added to), and the table after N identical calls is the table after one.
C11_UpsertIdempotent ==
    call.fn = "upsert" =>
        /\ RowsOfKey(result, call.new) = {call.new}
        /\ result = call.first

\* The key was stored with another name and other metrics, and the fact has
\* been upserted twice with identical arguments.
C11_Witness ==
    /\ call.fn = "upsert"
    /\ call.n = 2
    /\ \E r \in call.tbl :
          /\ uq_campaign_daily_breakdown_metric(r) = uq_campaign_daily_breakdown_metric(call.new)
          /\ r.campaign_name_platform # call.new.campaign_name_platform
          /\ r.impressions # call.new.impressions

\* C17: every fetch, on both platforms, requests exactly the 7 consecutive
\* days that end yesterday: with the current date d the inclusive range is
\* [d-7, d-1], which has 7 days and does not contain d.
C17_SevenDaysEndingYesterday ==
    call.fn = "date_range" =>
        /\ result.since = call.today - 7
        /\ result.until = call.today - 1
        /\ Cardinality(result.since..result.until) = 7
        /\ call.today \notin result.since..result.until

\* The canonical vocabulary of a dimension.
CanonicalValues(dimension) ==
    CASE dimension = "device" -> {"mobile", "desktop", "tablet", "connected_tv", "unknown"}
      [] dimension = "age_range" ->
           {"18-24", "25-34", "35-44", "45-54", "55-64", "65+", "undetermined", "unknown"}
      [] dimension = "gender" -> {"male", "female", "undetermined", "unknown"}

\* C18: for every vendor segment value of the device, age range and gender
\* dimensions, known to the mapping or not, the breakdown value either fetcher
\* stores is a member of the canonical set of the dimension; a value without
\* a mapping is stored as "unknown".
C18_CanonicalBreakdownValues ==
    call.fn = "normalize" => result \in CanonicalValues(call.dimension)

C20_SevenHundredsThenTen ==
    (/\ call.fn = "analyze"
     /\ call.baseline = [i \in 1..7 |-> 100]
     /\ call.recent = 10)
        => result = [direction |-> "low", message |-> "Spend dropped significantly"]

\* C21: analyze_data_trend returns "insufficient_data" with slope =
\* intercept = 0 for fewer than 3 values; for 3 or more values, with b the
\* least-squares slope against the index 0..n-1, m the mean and t = 0.02*|m|
\* (1e-6 when |m| <= 1e-6), it reports "upward" exactly when b > t,
\* "downward" exactly when b < -t and "flat" otherwise; and the slope it
\* returns is > 0 whenever it reports "upward" and < 0 whenever it reports
\* "downward".  (Values are thousandths: b = num/den thousandths with
\* num = n*sum(i*y) - sum(i)*sum(y) and den = n*sum(i*i) - sum(i)^2.)
C21_TrendDirection ==
    call.fn = "trend" =>
        LET y == call.values
            n == Len(y)
            S == SumList(y)
            absS == IF S < 0 THEN -S ELSE S
            sx == SumList([i \in 1..n |-> i - 1])
            num == n * SumList([i \in 1..n |-> (i - 1) * y[i]]) - sx * S
            den == n * SumList([i \in 1..n |-> (i - 1) * (i - 1)]) - sx * sx
            tiny == 1000 * absS <= n
            up == IF tiny THEN 1000 * num > den ELSE 50 * n * num > absS * den
            down == IF tiny THEN 1000 * num < -den ELSE 50 * n * num < -(absS * den)
        IN  IF n < 3
            THEN result = [slope |-> 0, intercept |-> 0,
                           trend_direction |-> "insufficient_data"]
            ELSE /\ result.trend_direction = "upward" <=> up
                 /\ result.trend_direction = "downward" <=> down
                 /\ result.trend_direction = "flat" <=> (~up /\ ~down)
                 /\ result.trend_direction = "upward" => result.slope > 0
                 /\ result.trend_direction = "downward" => result.slope < 0

\* The part of C22 on the top-movers lists: each holds at most 5 entries,
\* gainers all have absolute_change > 0 and are in descending order,
\* decliners all have absolute_change < 0 and are in ascending order, and no
\* key is in both.
TopMoversListsOK ==
    LET g == result.gainers
        d == result.decliners
    IN  /\ Len(g) <= 5 /\ Len(d) <= 5
        /\ \A i \in DOMAIN g : g[i].absolute_change > 0
        /\ \A i \in DOMAIN d : d[i].absolute_change < 0
        /\ \A i, j \in DOMAIN g : i < j => g[i].absolute_change >= g[j].absolute_change
        /\ \A i, j \in DOMAIN d : i < j => d[i].absolute_change <= d[j].absolute_change
        /\ \A i \in DOMAIN g, j \in DOMAIN d : g[i].campaign_id # d[j].campaign_id
        /\ \A i \in DOMAIN g : \E j \in DOMAIN result.changes : result.changes[j] = g[i]
        /\ \A i \in DOMAIN d : \E j \in DOMAIN result.changes : result.changes[j] = d[i]

\* C22: calculate_metric_changes returns exactly one entry per key of
\* all_keys, in which current and previous default to 0 when the key is
\* absent from its map, absolute_change = current - previous, and
\* percentage_change = 100*(current - previous)/previous when previous # 0,
\* 100 when previous = 0 and current # 0, and 0 when both are 0; and the
\* top-movers lists built from it are as TopMoversListsOK says.  (Totals are
\* thousandths, absolute_change hundredths, percentage_change tenths.)
C22_MetricChanges ==
    call.fn = "top_movers" =>
        /\ Len(result.changes) = Len(call.all_keys)
        /\ \A i \in DOMAIN call.all_keys :
            LET key == call.all_keys[i]
                current == IF key \in DOMAIN call.current THEN call.current[key].total ELSE 0
                previous == IF key \in DOMAIN call.prev THEN call.prev[key].total ELSE 0
            IN  \E j \in DOMAIN result.changes :
                  LET e == result.changes[j] IN
                  /\ e.campaign_id = key
                  /\ \A l \in DOMAIN result.changes :
                        result.changes[l].campaign_id = key => l = j
                  /\ key \notin DOMAIN call.current => e.current_value = 0
                  /\ key \notin DOMAIN call.prev => e.previous_value = 0
                  /\ 10 * e.absolute_change = current - previous
                  /\ previous # 0 =>
                        e.percentage_change * previous = 1000 * (current - previous)
                  /\ previous = 0 /\ current # 0 => e.percentage_change = 1000
                  /\ previous = 0 /\ current = 0 => e.percentage_change = 0
        /\ TopMoversListsOK

\* C22 as the code has it: absolute_change is current - previous rounded to
\* 2 decimals and percentage_change is 100*(current - previous)/previous
\* rounded to 1 decimal; everything else as in C22.
C22_MetricChangesRounded ==
    call.fn = "top_movers" =>
        /\ Len(result.changes) = Len(call.all_keys)
        /\ \A i \in DOMAIN call.all_keys :
            LET key == call.all_keys[i]
                current == IF key \in DOMAIN call.current THEN call.current[key].total ELSE 0
                previous == IF key \in DOMAIN call.prev THEN call.prev[key].total ELSE 0
                Within(x, half) == -half <= x /\ x <= half
            IN  \E j \in DOMAIN result.changes :
                  LET e == result.changes[j] IN
                  /\ e.campaign_id = key
                  /\ \A l \in DOMAIN result.changes :
                        result.changes[l].campaign_id = key => l = j
                  /\ key \notin DOMAIN call.current => e.current_value = 0
                  /\ key \notin DOMAIN call.prev => e.previous_value = 0
                  /\ Within(2 * (10 * e.absolute_change - (current - previous)), 10)
                  /\ previous > 0 =>
                        Within(2 * (e.percentage_change * previous
                                        - 1000 * (current - previous)), previous)
                  /\ previous = 0 /\ current # 0 => e.percentage_change = 1000
                  /\ previous = 0 /\ current = 0 => e.percentage_change = 0
        /\ TopMoversListsOK

\* Top movers have been computed for seven campaigns of which more than five
\* gained, one of them by a percentage that is not a whole tenth, and one
\* campaign was absent from the previous period.
C22_Witness ==
    /\ call.fn = "top_movers"
    /\ Len(call.all_keys) = 7
    /\ Cardinality({i \in DOMAIN result.changes :
                        result.changes[i].absolute_change > 0}) > 5
    /\ Len(result.gainers) = 5
    /\ \E i \in DOMAIN result.changes :
          LET e == result.changes[i] IN
          /\ e.campaign_id \in DOMAIN call.prev
          /\ e.campaign_id \in DOMAIN call.current
          /\ call.prev[e.campaign_id].total > 0
          /\ e.percentage_change * call.prev[e.campaign_id].total
                # 1000 * (call.current[e.campaign_id].total
                            - call.prev[e.campaign_id].total)
    /\ \E key \in DOMAIN call.current : key \notin DOMAIN call.prev

\* C23: the budget simulator answers 400 with an error message and no
\* scenarios whenever the payload is missing, current_cpc or
\* current_cvr_clicks is missing or not a number, current_cpc <= 0,
\* current_cvr_clicks is outside [0, 1], or budget_scenarios is not a
\* non-empty list of positive numbers; for every other request it answers
\* 200 with exactly one scenario per input budget, in input order, each with
\* projected_spend equal to its budget and projected_cpa equal to 0 when
\* projected conversions are 0.
C23_BudgetSimulator ==
    call.fn = "budget_simulator" =>
        LET data == call.data
            Missing(field) == data.kind # "object" \/ data.empty \/ data[field].kind = "null"
            NotANumber(field) == ~Missing(field) /\ data[field].kind # "number"
            Number(field) == ~Missing(field) /\ data[field].kind = "number"
            BadBudgets ==
                \/ Missing("budget_scenarios")
                \/ data.budget_scenarios.kind # "list"
                \/ data.budget_scenarios.items = <<>>
                \/ \E i \in DOMAIN data.budget_scenarios.items :
                      \/ data.budget_scenarios.items[i].kind # "number"
                      \/ data.budget_scenarios.items[i].num <= 0
            invalid ==
                \/ data.kind = "null"
                \/ Missing("current_cpc") \/ Missing("current_cvr_clicks")
                \/ NotANumber("current_cpc") \/ NotANumber("current_cvr_clicks")
                \/ (Number("current_cpc") /\ data.current_cpc.num <= 0)
                \/ (Number("current_cvr_clicks")
                      /\ (data.current_cvr_clicks.num < 0
                            \/ data.current_cvr_clicks.num > 1000))
                \/ BadBudgets
        IN  IF invalid
            THEN result.status = 400 /\ result.error # "" /\ result.scenarios = <<>>
            ELSE /\ result.status = 200
                 /\ Len(result.scenarios) = Len(data.budget_scenarios.items)
                 /\ \A i \in DOMAIN result.scenarios :
                      /\ -5 <= 10 * result.scenarios[i].budget
                                    - data.budget_scenarios.items[i].num
                      /\ 10 * result.scenarios[i].budget
                            - data.budget_scenarios.items[i].num <= 5
                      /\ result.scenarios[i].projected_spend = result.scenarios[i].budget
                      /\ data.current_cvr_clicks.num = 0
                            => result.scenarios[i].projected_cpa = 0

C26_ConcurrentCheckoutOneRow ==
    (/\ \A p \in DOMAIN requests :
            /\ requests[p].pc = "answered"
            /\ requests[p].overlapped
            /\ requests[p].env \in {BaseEnv, [BaseEnv EXCEPT !.trial_end = 2]})
        => /\ Cardinality(FilterBySubscriptionId(user_subscriptions,
                                                 requests[1].event.subscription)) = 1
           /\ {requests[p].response : p \in DOMAIN requests} = {200, 500}

\* C30: for the campaign the spend-anomaly endpoint analyses, the baseline
\* passed to the detector holds at most one value per calendar day of the 29
\* days before yesterday, each the campaign's total spend of such a day, and
\* the recent value is the campaign's total spend of yesterday; so a campaign
\* with fewer than 7 distinct stored days before yesterday yields no anomaly.
C30_BaselineOneValuePerDay ==
    call.fn = "spend_anomalies" =>
        LET yesterday == call.today - 1
            facts == {r \in call.table :
                        \E i \in call.integrations : /\ i.id = r.integration_id
                                                     /\ i.user_id = CurrentUserId
                                                     /\ i.status = "active"}
            days == {r.date : r \in {x \in facts : /\ x.date >= yesterday - 29
                                                  /\ x.date < yesterday}}
            total(d) == SumOf({r \in facts : /\ r.date = d
                                             /\ r.breakdown_type = "overall"
                                             /\ r.breakdown_value = "N/A"}, "spend") \div 100
        IN  /\ call.analysed =>
                /\ Len(call.baseline) <= Cardinality(days)
                /\ \A j \in DOMAIN call.baseline : \E d \in days : call.baseline[j] = total(d)
                /\ call.recent = total(yesterday)
            /\ Cardinality(days) < 7 => result.anomalies = <<>>

(***************************************************************************)
(* Properties of the OAuth routes.                                         *)
(***************************************************************************)
\* C16: after any sequence of callbacks and account selections, every user
\* has at most one integration per platform, and no request adds a row for a
\* (user, platform) pair that already has one: the table grows by at most one
\* row per request, and only by a row of a pair that had none.
C16_OneIntegrationPerPlatform ==
    /\ [](\A r1, r2 \in ad_platform_integrations :
             (r1.user_id = r2.user_id /\ r1.platform_name = r2.platform_name) => r1 = r2)
    /\ [][\A r \in ad_platform_integrations' \ ad_platform_integrations :
             \/ \E q \in ad_platform_integrations \ ad_platform_integrations' :
                   /\ q.id = r.id
                   /\ q.user_id = r.user_id
                   /\ q.platform_name = r.platform_name
             \/ \A q \in ad_platform_integrations :
                   q.user_id # r.user_id \/ q.platform_name # r.platform_name
       ]_vars

\* A Google Ads integration whose account is selected carries the access token
\* and expiry of a second callback and the refresh token of the first, and the
\* same user also has a Meta Ads integration with a long-lived token.
C16_Witness ==
    \E r \in ad_platform_integrations, m \in ad_platform_integrations :
        /\ r.platform_name = GOOGLE_ADS
        /\ r.ad_account_id = "123-456-7890"
        /\ r.access_token_encrypted = encrypt_token("at2")
        /\ r.refresh_token_encrypted = encrypt_token("rt1")
        /\ r.token_expiry = token_expiry_time(2)
        /\ m.platform_name = META_ADS
        /\ m.user_id = r.user_id
        /\ m.access_token_encrypted = encrypt_token("long")

====
